---- MODULE Spec2Model ----
(***************************************************************************)
(* A model of the letstalk backend: the topic library and its relevance    *)
(* ranker (agents/subject_library.py), the persona agent with its scripted *)
(* fallback (agents/subject_agent.py) and the Flask request handlers       *)
(* (app.py).                                                               *)
(*                                                                         *)
(* Text is a sequence of tokens.  A token is one character (each Chinese   *)
(* character of the source is written as its pinyin, numbered where two    *)
(* characters share a reading) or one fixed literal fragment of a template.*)
(* Substring tests, slices and strip() work on these sequences the way     *)
(* Python's work on str.  Scores are in tenths (2.0 is 20).                *)
(***************************************************************************)
EXTENDS Integers, Sequences, FiniteSets, TLC

VARIABLES
    LLM_ONLY,        \* app.py:21-23, set at process start
    llm_available,   \* app.py:26-39, whether LLMClient() could be built at start
    user_mode,       \* app.py:42, "demo" or "llm"
    subject_library, \* app.py:17, the SubjectLibrary instance (its three lists)
    phase,           \* "idle", "pending" (a request is in flight), "responded", "exited"
    request,         \* the request being handled
    response,        \* what the handler returned
    trace            \* generation events of the request: backend calls and scripted fallbacks

vars == <<LLM_ONLY, llm_available, user_mode, subject_library, phase, request, response, trace>>

-----------------------------------------------------------------------------
(* Bounds of the model *)

MaxCount == 5         \* largest count handed to get_smart_subjects (the library has 4 topics)
MaxStatements == 3    \* largest max_statements a debate request carries explicitly
MaxSubjectCount == 2  \* largest subject_count of an /api/ask request
MaxHistory == 7       \* longest history a debate request carries (the window is 6)
RoundsBelowOne == 2   \* how many round numbers below 1 a debate request may carry
MaxTextLen == 4        \* longest text (in tokens) a provider returns in a direct call
MaxTurn == 7          \* largest turn of a direct scripted lookup (a list has 5 templates)

(* a jitter drawn from a range wider than the smallest gap between two scores *)
JitterValuesWide == {0, 25}

(* random.uniform(0, 1.5), in tenths: its two ends *)
JitterValues == {0, 15}

(* diversity in tenths *)
Diversities == {0, 3, 10}

-----------------------------------------------------------------------------
(* Python helpers *)

(* None, where the other values are strings *)
None == "None"

(* an optional value: <<>> for None, <<v>> for v *)
Nothing == <<>>

Min(a, b) == IF a < b THEN a ELSE b
Max(a, b) == IF a > b THEN a ELSE b

(* needle in haystack, for str *)
IsSubstr(needle, haystack) ==
    \E i \in 0..(Len(haystack) - Len(needle)) :
        SubSeq(haystack, i + 1, i + Len(needle)) = needle

(* s[:k], k >= 0 *)
Prefix(s, k) == SubSeq(s, 1, Min(k, Len(s)))

(* s[k:], k >= 0 *)
Suffix(s, k) == SubSeq(s, k + 1, Len(s))

(* the first k entries where the last k are meant *)
FirstN(s, k) == SubSeq(s, 1, Min(k, Len(s)))

(* s[-k:], k > 0 *)
LastN(s, k) == SubSeq(s, Max(1, Len(s) - k + 1), Len(s))

(* x in list *)
InList(x, s) == \E i \in 1..Len(s) : s[i] = x

(* str.strip() *)
Strip(s) ==
    LET solid == {i \in 1..Len(s) : s[i] # " "}
    IN  IF solid = {} THEN <<>>
        ELSE SubSeq(s, CHOOSE i \in solid : \A j \in solid : i <= j,
                       CHOOSE i \in solid : \A j \in solid : i >= j)

(* list[index] of Python for a list of n items: the position (from 1) it reads, *)
(* 0 when it raises IndexError                                                   *)
ListIndex(index, n) ==
    IF index >= 0 /\ index < n THEN index + 1
    ELSE IF index < 0 /\ index >= 0 - n THEN n + index + 1
    ELSE 0

(* dict.get(key, default) on an optional request field: <<>> when the key is absent *)
Get(field, default) == IF field = <<>> THEN default ELSE field[1]


-----------------------------------------------------------------------------
(* The topic library.  config/subjects.json is read at start; this is a    *)
(* sample of it with four topics in the three tiers, one of them with two  *)
(* factions ("schools") and one whose name is not in the keyword table.    *)

xinlixue == <<"xin", "li", "xue">>                         \* psychology
jingjixue == <<"jing", "ji3", "xue">>                      \* economics
zhexue == <<"zhe", "xue">>                                 \* philosophy
hangweijingjixue == <<"hang", "wei", "jing", "ji3", "xue">> \* behavioural economics

hangweizhuyi ==
    [name |-> <<"hang", "wei", "zhu", "yi5">>, icon |-> "icon_s1",
     description |-> <<"s1_description">>, representative |-> <<"s1_representative">>,
     viewpoint |-> <<"s1_viewpoint">>]

renzhixuepai ==
    [name |-> <<"ren", "zhi", "xue", "pai">>, icon |-> "icon_s2",
     description |-> <<"s2_description">>, representative |-> <<"s2_representative">>,
     viewpoint |-> <<"s2_viewpoint">>]

Subject(name, description, schools) ==
    [name |-> name, icon |-> "icon", description |-> description,
     persona |-> <<"persona">>, schools |-> schools]

LibraryConfig ==
    [hot_subjects |->
        << Subject(xinlixue, <<"yan", "jiu", "xin", "li", "yu", "hang", "wei">>,
                   <<hangweizhuyi, renzhixuepai>>),
           Subject(jingjixue, <<"yan", "jiu", "zi", "yuan", "de5", "xuan", "ze">>, <<>>) >>,
     cold_subjects |->
        << Subject(zhexue, <<"zhui", "wen", "cun", "zai", "de5", "yi4", "yi5">>, <<>>) >>,
     crossover_subjects |->
        << Subject(hangweijingjixue,
                   <<"xin", "li", "yu", "jing", "ji3", "de5", "jiao1", "cha">>, <<>>) >>]

(* SubjectLibrary._build_keyword_mapping: the entries of the topics above *)
subject_keywords ==
    (xinlixue :> << <<"xin", "li">>, <<"qing", "xu">>, <<"gan", "shou">>, <<"xiang", "fa">>,
                    <<"xing", "ge">>, <<"hang", "wei">>, <<"jiao", "lv">>, <<"ya", "li4">>,
                    <<"kuai", "le">>, <<"xing4", "fu">>, <<"dong", "ji">>, <<"ji4", "yi">>,
                    <<"ren", "zhi">>, <<"qian", "yi4", "shi">> >>)
    @@ (jingjixue :> << <<"qian2">>, <<"jia", "ge">>, <<"cheng", "ben">>, <<"shou1", "yi2">>,
                        <<"tou", "zi">>, <<"xiao", "fei">>, <<"shi4", "chang">>,
                        <<"jing", "ji3">>, <<"mao", "yi3">>, <<"cai", "fu4">>,
                        <<"li", "xing">>, <<"xuan", "ze">>, <<"zi", "yuan">>,
                        <<"xiao4", "yong">> >>)
    @@ (zhexue :> << <<"yi4", "yi5">>, <<"ben", "zhi2">>, <<"cun", "zai">>, <<"zhen", "li">>,
                     <<"jia", "zhi3">>, <<"dao", "de">>, <<"lun", "li">>, <<"zi4", "you">>,
                     <<"xuan", "ze">>, <<"ren2", "sheng">>, <<"shi5", "jie">>,
                     <<"ren", "shi">> >>)

(* Questions a caller sends: none, blanks only, one that matches nothing,  *)
(* and one that names a topic and hits keywords of three topics.           *)
Q_empty == <<>>
Q_blank == <<" ", " ">>
Q_plain == <<"wei", "shen", "me", "ren2", "men", "xi", "huan", "tuo", "yan2">>
Q_econ == <<"jing", "ji3", "xue", "ru", "he", "kan", "dai", "ya", "li4", "yu", "xuan", "ze">>

(* one that names the topic without keywords, and with it a second topic *)
Q_cross == <<"hang", "wei", "jing", "ji3", "xue", "shi", "shen", "me">>

Questions == {Q_empty, Q_blank, Q_plain, Q_econ}

-----------------------------------------------------------------------------
(* SubjectLibrary *)

(* all_subjects = hot + cold + crossover *)
AllSubjects(lib) == lib.hot_subjects \o lib.cold_subjects \o lib.crossover_subjects

(* SubjectLibrary._calculate_relevance, with the jitter drawn by the caller *)
(* a score that counts a topic's keywords once however many of them occur *)
keyword_score_once(question, keywords) ==
    IF \E k \in 1..Len(keywords) : IsSubstr(keywords[k], question) THEN 20 ELSE 0

(* lines 117-122: 2.0 for every keyword of the list that occurs in the question *)
keyword_score(question, keywords) ==
    20 * Cardinality({k \in 1..Len(keywords) : IsSubstr(keywords[k], question)})

(* lines 128-132: description[:20] is a str, and iterating a str yields its *)
(* characters, each a str of length 1                                       *)
description_score(question, description) ==
    LET description_keywords == Prefix(description, 20)
        words == [i \in 1..Len(description_keywords) |-> <<description_keywords[i]>>]
    IN  IF \E i \in 1..Len(words) : Len(words[i]) > 1 /\ IsSubstr(words[i], question)
        THEN 10 ELSE 0

_calculate_relevance(question, subject, jitter) ==
    LET subject_name == subject.name
        keywords == IF subject_name \in DOMAIN subject_keywords
                    THEN subject_keywords[subject_name] ELSE <<>>
        name_score == IF IsSubstr(subject_name, question) THEN 50 ELSE 0
    IN  keyword_score(question, keywords) + name_score
            + description_score(question, subject.description) + jitter

(* list.sort(key=score, reverse=True) on the positions 1..Len(scores): stable, *)
(* equal scores keep their order                                               *)
SortByScoreDesc(scores) ==
    LET n == Len(scores)
        pos == [i \in 1..n |-> 1 + Cardinality({j \in 1..n :
                        \/ scores[j] > scores[i]
                        \/ scores[j] = scores[i] /\ j < i})]
    IN  [p \in 1..n |-> CHOOSE i \in 1..n : pos[i] = p]

(* get_smart_subjects, lines 67-76: the ranking, best first, as positions in *)
(* all_subjects                                                              *)
scored_subjects(lib, question, jitter) ==
    LET all_subjects == AllSubjects(lib)
    IN  SortByScoreDesc([i \in 1..Len(all_subjects) |->
            _calculate_relevance(question, all_subjects[i], jitter[i])])

high_relevance_count_no_floor(count, diversity) == (count * (10 - diversity)) \div 10

(* max(1, int(count * (1 - diversity))) *)
high_relevance_count(count, diversity) ==
    Max(1, (count * (10 - diversity)) \div 10)

(* subject in selected: dict equality *)
InSelected(all_subjects, i, selected) ==
    \E k \in 1..Len(selected) : all_subjects[selected[k]] = all_subjects[i]

RECURSIVE backfill_dup(_, _, _, _, _)
backfill_dup(all_subjects, selected, scored, count, i) ==
    IF i > Len(scored) \/ Len(selected) >= count THEN selected
    ELSE backfill_dup(all_subjects, Append(selected, scored[i]), scored, count, i + 1)

(* lines 91-96: top up with the best topics not yet selected *)
RECURSIVE backfill(_, _, _, _, _)
backfill(all_subjects, selected, scored, count, i) ==
    IF i > Len(scored) \/ Len(selected) >= count THEN selected
    ELSE IF ~InSelected(all_subjects, scored[i], selected)
         THEN backfill(all_subjects, Append(selected, scored[i]), scored, count, i + 1)
         ELSE backfill(all_subjects, selected, scored, count, i + 1)

(* the orders of n things *)
Orders == [n \in 0..(MaxCount + 1) |->
              {p \in [1..n -> 1..n] : \A i, j \in 1..n : i # j => p[i] # p[j]}]

(* random.sample(population, k): k distinct positions, in any order *)
Samples(population, k) ==
    {[i \in 1..k |-> population[p[i]]] :
        p \in {q \in [1..k -> 1..Len(population)] : \A i, j \in 1..k : i # j => q[i] # q[j]}}

(* random.shuffle: any order *)
Shuffles(s) == {[i \in 1..Len(s) |-> s[p[i]]] : p \in Orders[Len(s)]}

(* get_smart_subjects, lines 78-101, on a ranking: every list it can return, *)
(* as positions in all_subjects                                              *)
select_subjects(all_subjects, scored, count, diversity) ==
    LET high == high_relevance_count(count, diversity)
        random_count == count - high
        selected == Prefix(scored, high)
        remaining == Suffix(scored, high)
        sampled == IF Len(remaining) > 0 /\ random_count > 0
                   THEN {selected \o s :
                            s \in Samples(remaining, Min(random_count, Len(remaining)))}
                   ELSE {selected}
        filled == {IF Len(s) < count THEN backfill(all_subjects, s, scored, count, 1) ELSE s :
                      s \in sampled}
    IN  UNION {{Prefix(sh, count) : sh \in Shuffles(s)} : s \in filled}

Jitters(lib) == [1..Len(AllSubjects(lib)) -> JitterValues]

(* SubjectLibrary.get_smart_subjects: every run it can make, as the ranking it *)
(* computed and the list it returned                                          *)
get_smart_subjects_runs(lib, question, count, diversity) ==
    LET all_subjects == AllSubjects(lib)
    IN  UNION {
          LET scored == scored_subjects(lib, question, jitter)
          IN  {[ranking |-> [i \in 1..Len(scored) |-> all_subjects[scored[i]]],
                result |-> [i \in 1..Len(r) |-> all_subjects[r[i]]]] :
                  r \in select_subjects(all_subjects, scored, count, diversity)}
          : jitter \in Jitters(lib)}

(* SubjectLibrary.get_smart_subjects: every list it can return *)
get_smart_subjects(lib, question, count, diversity) ==
    {run.result : run \in get_smart_subjects_runs(lib, question, count, diversity)}

(* SubjectLibrary.get_subject_by_name: <<>> for None, <<subject>> otherwise *)
get_subject_by_name(lib, name) ==
    LET all_subjects == AllSubjects(lib)
        hits == {i \in 1..Len(all_subjects) : all_subjects[i].name = name}
    IN  IF hits = {} THEN Nothing
        ELSE <<all_subjects[CHOOSE i \in hits : \A j \in hits : i <= j]>>

Names(subjects) == [i \in 1..Len(subjects) |-> subjects[i].name]

-----------------------------------------------------------------------------
(* The generation backend, as the agent sees it: LLMClient.generate_response *)
(* returns the text or raises.                                               *)

Ok == [ok |-> TRUE, text |-> <<"llm_line_1", "\n", "llm_line_2">>, error |-> <<>>]
Failed == [ok |-> FALSE, text |-> <<>>, error |-> <<"backend_error">>]

BackendOutcomes == {Ok, Failed}

(* generate_response can also return an empty text (lines 164, 168, 186, 213, 216); *)
(* where a handler hands the text on as an answer, that outcome is told apart       *)
Empty == [ok |-> TRUE, text |-> <<>>, error |-> <<>>]
AnswerOutcomes == {Ok, Empty, Failed}

(* a generation event of the trace: one backend call (with what its prompt holds of *)
(* the debate, if anything) or one scripted text                                    *)
BackendCall(op, who, prompt, outcome) ==
    [kind |-> "backend_call", op |-> op, who |-> who, prompt |-> prompt, args |-> <<>>,
     ok |-> outcome.ok]

Scripted(op, who) ==
    [kind |-> "scripted", op |-> op, who |-> who, prompt |-> <<>>, args |-> <<>>, ok |-> FALSE]

(* a scripted debate statement, with the round and turn it was looked up for *)
ScriptedAt(op, who, round_num, turn) ==
    [kind |-> "scripted", op |-> op, who |-> who, prompt |-> <<>>,
     args |-> <<round_num, turn>>, ok |-> FALSE]

(* a template's literal text with the values put into it *)
Fmt(template, values) == <<template>> \o values

(* str.split('\n') *)
RECURSIVE SplitLines(_)
SplitLines(text) ==
    LET breaks == {i \in 1..Len(text) : text[i] = "\n"}
    IN  IF breaks = {} THEN <<text>>
        ELSE LET b == CHOOSE i \in breaks : \A j \in breaks : i <= j
             IN  <<SubSeq(text, 1, b - 1)>> \o SplitLines(SubSeq(text, b + 1, Len(text)))

(* [s.strip() for s in response.split('\n') if s.strip() and not s.strip().startswith('#')][:3] *)
RECURSIVE KeptLines(_)
KeptLines(lines) ==
    IF lines = <<>> THEN <<>>
    ELSE LET s == Strip(Head(lines))
         IN  (IF s # <<>> /\ s[1] # "#" THEN <<s>> ELSE <<>>) \o KeptLines(Tail(lines))

(* LLMClient.generate_suggestions / generate_arguments, after generate_response *)
FirstThreeLines(text) == Prefix(KeptLines(SplitLines(text)), 3)

(* LLMClient.generate_pk_statement, lines 311-337: what of the history goes into the prompt *)
pk_prompt(history, round_num, turn) ==
    [round_num |-> round_num, turn |-> turn,
     opponent_latest |-> IF Len(history) > 0 THEN <<history[Len(history)]>> ELSE <<>>,
     history_text |-> IF Len(history) > 1 THEN LastN(history, 6) ELSE <<>>]

-----------------------------------------------------------------------------
(* LLMClient: texts of a provider.  A text is a sequence of tokens: a word, a word  *)
(* one of the meta patterns matches anywhere ("xi_tong_ti_shi"), a word a pattern   *)
(* matches only at the start of a sentence ("hao_de"), a sentence end ".", a blank. *)

TextTokens == {"zheng_wen", "xi_tong_ti_shi", "hao_de", ".", " "}

RECURSIVE TextsOfLen(_)
TextsOfLen(n) ==
    IF n = 0 THEN {<<>>}
    ELSE {Append(t, c) : t \in TextsOfLen(n - 1), c \in TextTokens}

Texts == UNION {TextsOfLen(n) : n \in 0..MaxTextLen}

(* re.split(r"(?<=[.!?])\s+", txt): cut at every run of blanks that follows a *)
(* sentence end; i is the position read, cur the sentence being gathered      *)
RECURSIVE SplitSentences(_, _, _, _)
SplitSentences(txt, i, cur, done) ==
    IF i > Len(txt) THEN Append(done, cur)
    ELSE IF txt[i] = " " /\ i > 1 /\ txt[i - 1] = "."
    THEN LET after == {j \in (i + 1)..Len(txt) : txt[j] # " "}
             next == IF after = {} THEN Len(txt) + 1
                     ELSE CHOOSE j \in after : \A k \in after : j <= k
         IN  SplitSentences(txt, next, <<>>, Append(done, cur))
    ELSE SplitSentences(txt, i + 1, Append(cur, txt[i]), done)

(* any(re.search(p, s_strip) for p in meta_patterns) *)
MatchesMeta(s_strip) ==
    \/ InList("xi_tong_ti_shi", s_strip)
    \/ s_strip[1] = "hao_de"

(* _sanitize_output, lines 110-144: the sentences kept, joined *)
RECURSIVE Cleaned(_, _)
Cleaned(sentences, i) ==
    IF i > Len(sentences) THEN <<>>
    ELSE LET s_strip == Strip(sentences[i])
         IN  IF s_strip = <<>> \/ MatchesMeta(s_strip)
             THEN Cleaned(sentences, i + 1)
             ELSE s_strip \o Cleaned(sentences, i + 1)

_sanitize_output_empty(text) ==
    IF text = <<>> THEN text
    ELSE Strip(Cleaned(SplitSentences(Strip(text), 1, <<>>, <<>>), 1))

(* LLMClient._sanitize_output *)
_sanitize_output(text) ==
    IF text = <<>> THEN text
    ELSE LET txt == Strip(text)
             result == Strip(Cleaned(SplitSentences(txt, 1, <<>>, <<>>), 1))
         IN  IF result # <<>> THEN result ELSE txt

(* what a provider's API hands back to generate_response *)
OptTexts == {Nothing} \cup {<<t>> : t \in Texts}

FewTexts == {Nothing, <<<<>>>>, <<<<" ">>>>, <<<<"zheng_wen">>>>}

(* gemini: resp.text and the text of the first part of the first candidate; *)
(* api_error: generate_content raises                                       *)
GeminiResponses ==
    {[provider |-> "gemini", api_error |-> FALSE, text |-> t, parts |-> Nothing] : t \in OptTexts}
    \cup {[provider |-> "gemini", api_error |-> FALSE, text |-> t, parts |-> p]
            : t \in {Nothing, <<<<>>>>}, p \in FewTexts}
    \cup {[provider |-> "gemini", api_error |-> TRUE, text |-> Nothing, parts |-> Nothing]}

(* openai: response.choices[0].message.content *)
OpenAIResponses ==
    {[provider |-> "openai", api_error |-> FALSE, content |-> c] : c \in OptTexts}
    \cup {[provider |-> "openai", api_error |-> TRUE, content |-> Nothing]}

(* huiyuan: the HTTP status, whether the body has choices, the content of the first *)
(* message, and the body's "text" field                                             *)
HuiYuanResponses ==
    {[provider |-> "huiyuan", status_code |-> 200, choices |-> TRUE, content |-> c,
      text |-> Nothing] : c \in OptTexts}
    \cup {[provider |-> "huiyuan", status_code |-> 200, choices |-> FALSE, content |-> Nothing,
           text |-> t] : t \in FewTexts}
    \cup {[provider |-> "huiyuan", status_code |-> 500, choices |-> TRUE,
           content |-> <<<<"zheng_wen">>>>, text |-> Nothing]}

(* what generate_response comes to: the text it returns or the exception it raises, *)
(* and the text it handed to _sanitize_output, if it got that far                   *)
ResponseReturned(stripped) ==
    [raised |-> FALSE, ret |-> _sanitize_output(stripped), sanitized |-> <<stripped>>]

ResponseRaised == [raised |-> TRUE, ret |-> <<>>, sanitized |-> Nothing]

(* LLMClient.generate_response, lines 151-172 *)
generate_response_gemini(resp) ==
    IF resp.api_error THEN ResponseRaised
    ELSE IF resp.text # Nothing /\ resp.text[1] # <<>>
    THEN ResponseReturned(Strip(resp.text[1]))
    ELSE IF resp.parts # Nothing
    THEN ResponseReturned(Strip(resp.parts[1]))
    ELSE ResponseRaised

(* LLMClient.generate_response, lines 174-189; content None has no strip() *)
generate_response_openai(resp) ==
    IF resp.api_error \/ resp.content = Nothing THEN ResponseRaised
    ELSE ResponseReturned(Strip(resp.content[1]))

(* LLMClient.generate_response, lines 191-220 *)
generate_response_huiyuan(resp) ==
    IF resp.status_code >= 400 THEN ResponseRaised
    ELSE IF resp.choices
    THEN IF resp.content = Nothing \/ resp.content[1] = <<>>
         THEN ResponseRaised
         ELSE ResponseReturned(Strip(resp.content[1]))
    ELSE IF resp.text # Nothing
    THEN ResponseReturned(Strip(resp.text[1]))
    ELSE ResponseRaised

(* LLMClient.generate_response *)
generate_response(resp) ==
    CASE resp.provider = "gemini" -> generate_response_gemini(resp)
      [] resp.provider = "openai" -> generate_response_openai(resp)
      [] resp.provider = "huiyuan" -> generate_response_huiyuan(resp)

-----------------------------------------------------------------------------
(* SubjectAgent *)

shehuixue == <<"she", "hui", "xue">>       \* sociology
shengwuxue == <<"sheng", "wu", "xue">>     \* biology
lishixue == <<"li2", "shi3", "xue">>       \* history
wulixue == <<"wu", "li", "xue">>           \* physics
wenxue == <<"wen2", "xue">>                \* literature
chuanboxue == <<"chuan", "bo", "xue">>     \* communication
yishuxue == <<"yi6", "shu", "xue">>        \* art

(* SubjectAgent.__init__ *)
SubjectAgent(subject_info, llm_client) ==
    [name |-> subject_info.name, icon |-> subject_info.icon,
     description |-> subject_info.description, persona |-> subject_info.persona,
     llm_client |-> llm_client, last_used_demo |-> FALSE, last_error_message |-> Nothing]

(* what an operation of the agent hands back: its return value, the agent after it, *)
(* the generation events it caused, and whether it raised                           *)
Returned(ret, agent, events) ==
    [ret |-> ret, agent |-> agent, events |-> events, raised |-> FALSE]

Raised(agent, events) ==
    [ret |-> <<>>, agent |-> agent, events |-> events, raised |-> TRUE]

(* SubjectAgent._get_demo_answer *)
_get_demo_answer(self, question) ==
    LET fixed == <<xinlixue, jingjixue, shehuixue, shengwuxue, zhexue, lishixue, wulixue,
                   wenxue, chuanboxue, yishuxue>>
        hits == {i \in 1..Len(fixed) : IsSubstr(fixed[i], self.name)}
    IN  IF hits # {}
        THEN Fmt("demo_answer", fixed[CHOOSE i \in hits : \A j \in hits : i <= j])
        ELSE Fmt("demo_answer_generic", self.name)

(* SubjectAgent._get_demo_deep_answer *)
_get_demo_deep_answer(self, question) ==
    IF IsSubstr(xinlixue, self.name) THEN <<"demo_deep_answer_xinlixue">>
    ELSE IF IsSubstr(jingjixue, self.name) THEN <<"demo_deep_answer_jingjixue">>
    ELSE Fmt("demo_deep_answer_generic", self.name)

(* the three scripted suggestions of generate_suggestions *)
_demo_suggestions(self) ==
    << Fmt("demo_suggestion_1", self.name), Fmt("demo_suggestion_2", self.name),
       Fmt("demo_suggestion_3", self.name) >>

(* SubjectAgent._get_demo_viewpoint *)
_get_demo_viewpoint(self, question) ==
    IF self.name \in {xinlixue, jingjixue, shehuixue, shengwuxue, zhexue}
    THEN Fmt("demo_viewpoint", self.name)
    ELSE Fmt("demo_viewpoint_generic", self.name)

(* SubjectAgent._get_demo_arguments *)
_get_demo_arguments(self, question) ==
    LET key == IF IsSubstr(xinlixue, self.name) THEN "demo_argument_xinlixue"
               ELSE IF IsSubstr(jingjixue, self.name) THEN "demo_argument_jingjixue"
               ELSE IF IsSubstr(shehuixue, self.name) THEN "demo_argument_shehuixue"
               ELSE "demo_argument_generic"
    IN  IF key = "demo_argument_generic"
        THEN <<Fmt(key, <<"1">> \o self.name), Fmt(key, <<"2">> \o self.name),
               Fmt(key, <<"3">> \o self.name)>>
        ELSE <<Fmt(key, <<"1">>), Fmt(key, <<"2">>), Fmt(key, <<"3">>)>>

(* the number of scripted statements in every list of _get_demo_pk_statement *)
PkTemplates == 5

(* SubjectAgent._get_demo_pk_statement, lines 387-388: the position (from 1) of the *)
(* template read for a turn, 0 when the lookup raises IndexError                    *)
pk_template_at(turn, n) == ListIndex((turn - 1) % n, n)

(* SubjectAgent._get_demo_pk_statement *)
_get_demo_pk_statement(self, question, round_num, turn) ==
    LET templates ==
            IF round_num = 1
            THEN IF self.name \in {xinlixue, jingjixue, shehuixue, shengwuxue, zhexue}
                 THEN [k \in 1..PkTemplates |-> Fmt("demo_pk_own", <<"template", ToString(k)>>)]
                 ELSE [k \in 1..PkTemplates |->
                          Fmt("demo_pk_round1", <<"template", ToString(k)>> \o self.name)]
            ELSE IF round_num = 2
            THEN [k \in 1..PkTemplates |->
                     Fmt("demo_pk_round2", <<"template", ToString(k)>> \o self.name)]
            ELSE [k \in 1..PkTemplates |->
                     Fmt("demo_pk_round3", <<"template", ToString(k)>> \o self.name)]
    IN  templates[pk_template_at(turn, Len(templates))]

answer_one_sentence_retry(self, question, backend) ==
    IF self.llm_client = None
    THEN Returned(_get_demo_answer(self, question), self,
                  <<Scripted("answer_one_sentence", self.name)>>)
    ELSE IF backend[1].ok
    THEN Returned(backend[1].text, self,
                  <<BackendCall("answer_one_sentence", self.name, <<>>, backend[1])>>)
    ELSE IF backend[2].ok
    THEN Returned(backend[2].text, self,
                  <<BackendCall("answer_one_sentence", self.name, <<>>, backend[1]),
                    BackendCall("answer_one_sentence", self.name, <<>>, backend[2])>>)
    ELSE Returned(_get_demo_answer(self, question), self,
                  <<BackendCall("answer_one_sentence", self.name, <<>>, backend[1]),
                    BackendCall("answer_one_sentence", self.name, <<>>, backend[2]),
                    Scripted("answer_one_sentence", self.name)>>)

(* SubjectAgent.answer_one_sentence; backend[1] is what its backend call comes to *)
answer_one_sentence(self, question, backend) ==
    IF self.llm_client = None
    THEN Returned(_get_demo_answer(self, question), self,
                  <<Scripted("answer_one_sentence", self.name)>>)
    ELSE IF backend[1].ok
    THEN Returned(backend[1].text, self,
                  <<BackendCall("answer_one_sentence", self.name, <<>>, backend[1])>>)
    ELSE Returned(_get_demo_answer(self, question), self,
                  <<BackendCall("answer_one_sentence", self.name, <<>>, backend[1]),
                    Scripted("answer_one_sentence", self.name)>>)

(* SubjectAgent.deep_answer *)
deep_answer(self, question, context, backend) ==
    IF self.llm_client = None
    THEN Returned(_get_demo_deep_answer(self, question),
                  [self EXCEPT !.last_used_demo = TRUE],
                  <<Scripted("deep_answer", self.name)>>)
    ELSE IF backend[1].ok
    THEN Returned(backend[1].text, [self EXCEPT !.last_used_demo = FALSE],
                  <<BackendCall("deep_answer", self.name, <<>>, backend[1])>>)
    ELSE Returned(_get_demo_deep_answer(self, question),
                  [self EXCEPT !.last_used_demo = TRUE,
                               !.last_error_message = backend[1].error],
                  <<BackendCall("deep_answer", self.name, <<>>, backend[1]),
                    Scripted("deep_answer", self.name)>>)

(* SubjectAgent.generate_suggestions *)
generate_suggestions(self, question, answer, backend) ==
    IF self.llm_client = None
    THEN Returned(_demo_suggestions(self), [self EXCEPT !.last_used_demo = TRUE],
                  <<Scripted("generate_suggestions", self.name)>>)
    ELSE IF backend[1].ok
    THEN Returned(FirstThreeLines(backend[1].text), [self EXCEPT !.last_used_demo = FALSE],
                  <<BackendCall("generate_suggestions", self.name, <<>>, backend[1])>>)
    ELSE Returned(_demo_suggestions(self), [self EXCEPT !.last_used_demo = TRUE],
                  <<BackendCall("generate_suggestions", self.name, <<>>, backend[1]),
                    Scripted("generate_suggestions", self.name)>>)

(* SubjectAgent.generate_viewpoint *)
generate_viewpoint(self, question, backend) ==
    IF self.llm_client = None
    THEN Returned(_get_demo_viewpoint(self, question), self,
                  <<Scripted("generate_viewpoint", self.name)>>)
    ELSE IF backend[1].ok
    THEN Returned(backend[1].text, self,
                  <<BackendCall("generate_viewpoint", self.name, <<>>, backend[1])>>)
    ELSE Returned(_get_demo_viewpoint(self, question), self,
                  <<BackendCall("generate_viewpoint", self.name, <<>>, backend[1]),
                    Scripted("generate_viewpoint", self.name)>>)

(* SubjectAgent.generate_arguments *)
generate_arguments(self, question, backend) ==
    IF self.llm_client = None
    THEN Returned(_get_demo_arguments(self, question), self,
                  <<Scripted("generate_arguments", self.name)>>)
    ELSE IF backend[1].ok
    THEN Returned(FirstThreeLines(backend[1].text), self,
                  <<BackendCall("generate_arguments", self.name, <<>>, backend[1])>>)
    ELSE Returned(_get_demo_arguments(self, question), self,
                  <<BackendCall("generate_arguments", self.name, <<>>, backend[1]),
                    Scripted("generate_arguments", self.name)>>)

(* SubjectAgent.generate_pk_statement *)
generate_pk_statement(self, question, history, round_num, turn, backend) ==
    IF self.llm_client = None
    THEN Returned(_get_demo_pk_statement(self, question, round_num, turn), self,
                  <<ScriptedAt("generate_pk_statement", self.name, round_num, turn)>>)
    ELSE IF backend[1].ok
    THEN Returned(backend[1].text, self,
                  <<BackendCall("generate_pk_statement", self.name,
                                <<pk_prompt(history, round_num, turn)>>, backend[1])>>)
    ELSE Returned(_get_demo_pk_statement(self, question, round_num, turn), self,
                  <<BackendCall("generate_pk_statement", self.name,
                                <<pk_prompt(history, round_num, turn)>>, backend[1]),
                    ScriptedAt("generate_pk_statement", self.name, round_num, turn)>>)

-----------------------------------------------------------------------------
(* The process *)

NoRequest == [route |-> "none"]
NoResponse == [route |-> "none"]

(* what a handler comes to: its response and the generation events it caused *)
Outcome(resp, events) == [response |-> resp, trace |-> events]

(* jsonify({'success': False, 'error': ...}), status *)
ErrorResponse(route, status, error) ==
    [route |-> route, status |-> status, success |-> FALSE, error |-> <<error>>]

(* LLMClient(): the configuration it reads is the one read at start *)
LLMClientRaises(available) == ~available

(* outcome i of a list of backend outcomes, as the backend of one agent call *)
BackendAt(outs, i) == IF i \in DOMAIN outs THEN <<outs[i]>> ELSE <<>>

weizhi == <<"wei4", "zhi">>   \* a name no topic or faction has

-----------------------------------------------------------------------------
(* /api/ask *)

(* the default of subject_count *)
DefaultSubjectCount == 3

(* names the routing answer of the backend may list, and how many *)
SelectionNames == {xinlixue, weizhi}
MaxSelectionLines == 2

RECURSIVE JoinLines(_)
JoinLines(lines) ==
    IF lines = <<>> THEN <<>>
    ELSE IF Len(lines) = 1 THEN lines[1]
    ELSE lines[1] \o <<"\n">> \o JoinLines(Tail(lines))

(* what the routing call comes to: a failure, or a text of names, one per line *)
SelectionOutcomes ==
    {Failed} \cup
    {[ok |-> TRUE, text |-> JoinLines(names), error |-> <<>>] :
        names \in UNION {[1..n -> SelectionNames] : n \in 0..MaxSelectionLines}}

(* [x.strip() for x in selection_text.split('\n') if x.strip()] *)
RECURSIVE NonBlankLines(_)
NonBlankLines(lines) ==
    IF lines = <<>> THEN <<>>
    ELSE LET s == Strip(Head(lines))
         IN  (IF s # <<>> THEN <<s>> ELSE <<>>) \o NonBlankLines(Tail(lines))

(* [name_to_subject[n] for n in selected_names if n in name_to_subject] *)
RECURSIVE KnownSubjects(_, _)
KnownSubjects(lib, names) ==
    IF names = <<>> THEN <<>>
    ELSE get_subject_by_name(lib, Head(names))
         \o KnownSubjects(lib, Tail(names))

(* lines 118-124: add the ranker's topics whose names are not there yet *)
RECURSIVE MergeFallback(_, _, _, _)
MergeFallback(selected_infos, fallback, subject_count, i) ==
    IF i > Len(fallback) THEN selected_infos
    ELSE IF \A k \in 1..Len(selected_infos) : selected_infos[k].name # fallback[i].name
         THEN IF Len(selected_infos) + 1 >= subject_count
              THEN Append(selected_infos, fallback[i])
              ELSE MergeFallback(Append(selected_infos, fallback[i]), fallback,
                                 subject_count, i + 1)
         ELSE MergeFallback(selected_infos, fallback, subject_count, i + 1)

(* ask_question, lines 94-137: every way the topics are chosen.  failed: the  *)
(* routing call failed under LLM_ONLY                                         *)
ask_select_subjects(lib, question, subject_count, mode, llm_only, available) ==
    LET ranked == get_smart_subjects(lib, question, subject_count, 3)
        chosen(subjects, events) == [failed |-> FALSE, subjects |-> subjects, events |-> events]
        router(sel) == <<BackendCall("select_subjects", <<"router">>, <<>>, sel)>>
        failure(events) ==
            IF llm_only THEN {[failed |-> TRUE, subjects |-> <<>>, events |-> events]}
            ELSE {chosen(s, events) : s \in ranked}
    IN  IF mode = "llm"
        THEN IF LLMClientRaises(available) THEN failure(<<>>)
             ELSE UNION {
                    IF ~sel.ok THEN failure(router(sel))
                    ELSE LET selected_infos ==
                                 KnownSubjects(lib, NonBlankLines(SplitLines(sel.text)))
                         IN  IF Len(selected_infos) < subject_count
                             THEN {chosen(Prefix(MergeFallback(selected_infos, fallback,
                                                               subject_count, 1),
                                                 subject_count), router(sel)) :
                                      fallback \in ranked}
                             ELSE {chosen(Prefix(selected_infos, subject_count), router(sel))}
                    : sel \in SelectionOutcomes}
        ELSE {chosen(s, <<>>) : s \in ranked}

(* ask_question, lines 139-159: the answers, topic by topic.  Gives the results *)
(* so far, the events, and whether the LLM_ONLY check of line 145 ended it      *)
RECURSIVE ask_answers(_, _, _, _, _, _, _, _)
ask_answers(subjects, question, mode, llm_only, outs, i, results, events) ==
    IF i > Len(subjects) THEN [refused |-> FALSE, results |-> results, events |-> events]
    ELSE LET subject_info == subjects[i]
             current_llm == IF mode = "llm" THEN "client" ELSE None
             r == answer_one_sentence(SubjectAgent(subject_info, current_llm), question,
                                      BackendAt(outs, i))
         IN  IF llm_only /\ r.agent.last_used_demo
             THEN [refused |-> TRUE, results |-> results, events |-> events \o r.events]
             ELSE ask_answers(subjects, question, mode, llm_only, outs, i + 1,
                              Append(results, [name |-> subject_info.name,
                                               answer |-> r.ret,
                                               used_demo |-> r.agent.last_used_demo]),
                              events \o r.events)

(* ask_question: every response it can give to a request *)
ask_question_outcomes(req, lib, mode, llm_only, available) ==
    LET question == Strip(req.question)
        subject_count == Get(req.subject_count, DefaultSubjectCount)
    IN  IF question = <<>>
        THEN {Outcome(ErrorResponse("ask", 400, "question_empty"), <<>>)}
        ELSE UNION {
               IF sel.failed
               THEN {Outcome(ErrorResponse("ask", 503, "llm_routing_failed"), sel.events)}
               ELSE IF mode = "llm" /\ Len(sel.subjects) > 0 /\ LLMClientRaises(available)
               THEN {Outcome(ErrorResponse("ask", 500, "exception"), sel.events)}
               ELSE {LET a == ask_answers(sel.subjects, question, mode, llm_only, outs, 1,
                                          <<>>, <<>>)
                     IN  IF a.refused
                         THEN Outcome(ErrorResponse("ask", 503, "llm_answer_failed"),
                                      sel.events \o a.events)
                         ELSE Outcome([route |-> "ask", status |-> 200, success |-> TRUE,
                                       question |-> question, subjects |-> a.results,
                                       demo_mode |-> (mode = "demo")],
                                      sel.events \o a.events)
                     : outs \in [1..(IF mode = "llm" THEN Len(sel.subjects) ELSE 0)
                                    -> AnswerOutcomes]}
               : sel \in ask_select_subjects(lib, question, subject_count, mode, llm_only,
                                             available)}

-----------------------------------------------------------------------------
(* /api/set-mode *)

(* str.lower() of the mode names a caller sends *)
Lower(mode) == IF mode = "LLM" THEN "llm" ELSE IF mode = "DEMO" THEN "demo" ELSE mode

set_mode_outcome_lenient(req, mode_now, llm_only, available) ==
    LET mode == Lower(Get(req.mode, "demo"))
    IN  IF mode \notin {"demo", "llm"}
        THEN [response |-> ErrorResponse("set_mode", 400, "invalid_mode"), user_mode |-> mode_now]
        ELSE IF mode = "llm" /\ ~available
        THEN [response |-> ErrorResponse("set_mode", 400, "llm_unavailable"), user_mode |-> mode_now]
        ELSE [response |-> [route |-> "set_mode", status |-> 200, success |-> TRUE,
                            mode |-> mode, llm_only |-> llm_only],
              user_mode |-> mode]

(* a set_mode that switches to 'llm' without asking whether the backend is there *)
set_mode_outcome_unchecked(req, mode_now, llm_only, available) ==
    LET mode == Lower(Get(req.mode, "demo"))
    IN  IF mode \notin {"demo", "llm"}
        THEN [response |-> ErrorResponse("set_mode", 400, "invalid_mode"), user_mode |-> mode_now]
        ELSE IF llm_only /\ mode = "demo"
        THEN [response |-> ErrorResponse("set_mode", 400, "demo_forbidden"), user_mode |-> mode_now]
        ELSE [response |-> [route |-> "set_mode", status |-> 200, success |-> TRUE,
                            mode |-> mode, llm_only |-> llm_only],
              user_mode |-> mode]

(* a set_mode that takes the mode over before it tests the backend *)
set_mode_outcome_eager(req, mode_now, llm_only, available) ==
    LET mode == Lower(Get(req.mode, "demo"))
    IN  IF mode \notin {"demo", "llm"}
        THEN [response |-> ErrorResponse("set_mode", 400, "invalid_mode"), user_mode |-> mode_now]
        ELSE IF llm_only /\ mode = "demo"
        THEN [response |-> ErrorResponse("set_mode", 400, "demo_forbidden"), user_mode |-> mode_now]
        ELSE IF mode = "llm" /\ ~available
        THEN [response |-> ErrorResponse("set_mode", 400, "llm_unavailable"), user_mode |-> mode]
        ELSE [response |-> [route |-> "set_mode", status |-> 200, success |-> TRUE,
                            mode |-> mode, llm_only |-> llm_only],
              user_mode |-> mode]

(* set_mode: the response and the mode after it *)
set_mode_outcome(req, mode_now, llm_only, available) ==
    LET mode == Lower(Get(req.mode, "demo"))
    IN  IF mode \notin {"demo", "llm"}
        THEN [response |-> ErrorResponse("set_mode", 400, "invalid_mode"), user_mode |-> mode_now]
        ELSE IF llm_only /\ mode = "demo"
        THEN [response |-> ErrorResponse("set_mode", 400, "demo_forbidden"), user_mode |-> mode_now]
        ELSE IF mode = "llm" /\ ~available
        THEN [response |-> ErrorResponse("set_mode", 400, "llm_unavailable"), user_mode |-> mode_now]
        ELSE [response |-> [route |-> "set_mode", status |-> 200, success |-> TRUE,
                            mode |-> mode, llm_only |-> llm_only],
              user_mode |-> mode]

-----------------------------------------------------------------------------
(* /api/school-pk *)

(* the default of max_statements *)
DefaultMaxStatements == 10

(* the number of rounds of a debate *)
max_rounds == 3

(* the number of scripted statements of _get_demo_school_statement *)
SchoolTemplates == 5

(* the history entry made of a user's input, lines 529-535 *)
UserStatement(user_input) ==
    [speaker |-> "user", name |-> <<"yong", "hu">>, icon |-> "icon_user", content |-> user_input]

_get_demo_school_statement_unclamped(school_info, round_num, turn) ==
    LET index == (round_num - 1) * 5 + turn - 1
        at == ListIndex(index, SchoolTemplates)
    IN  IF at = 0 THEN [raised |-> TRUE, ret |-> <<>>]
        ELSE [raised |-> FALSE,
              ret |-> Fmt("demo_school", <<"template", ToString(at)>> \o school_info.name)]

(* _get_demo_school_statement *)
_get_demo_school_statement(school_info, round_num, turn) ==
    LET index == (round_num - 1) * 5 + turn - 1
        at == IF index < SchoolTemplates THEN ListIndex(index, SchoolTemplates) ELSE 1
    IN  IF at = 0 THEN [raised |-> TRUE, ret |-> <<>>]
        ELSE [raised |-> FALSE,
              ret |-> Fmt("demo_school", <<"template", ToString(at)>> \o school_info.name)]

(* _generate_school_statement, lines 625-629: what of the history goes into the prompt *)
school_prompt(history, round_num, turn) ==
    [round_num |-> round_num, turn |-> turn,
     opponent_latest |-> <<>>,
     history_text |-> IF Len(history) > 0 THEN LastN(history, 6) ELSE <<>>]

(* _generate_school_statement; backend[1] is what its backend call comes to *)
_generate_school_statement(question, school_info, subject_info, history, round_num, turn, llm_client, backend) ==
    LET demo == _get_demo_school_statement(school_info, round_num, turn)
        scripted == IF demo.raised THEN <<>>
                    ELSE <<ScriptedAt("_generate_school_statement", school_info.name,
                                      round_num, turn)>>
    IN  IF llm_client = None
        THEN [raised |-> demo.raised, ret |-> demo.ret, events |-> scripted]
        ELSE LET call == BackendCall("_generate_school_statement", school_info.name,
                                     <<school_prompt(history, round_num, turn)>>, backend[1])
             IN  IF backend[1].ok
                 THEN [raised |-> FALSE, ret |-> backend[1].text, events |-> <<call>>]
                 ELSE [raised |-> demo.raised, ret |-> demo.ret,
                       events |-> <<call>> \o scripted]

school_pk_speaker_swapped(i) == IF i % 2 = 0 THEN 2 ELSE 1

(* school_pk, lines 540 and 552: whose turn statement i (from 0) is *)
school_pk_speaker(i) == IF i % 2 = 0 THEN 1 ELSE 2

(* school_pk, lines 539-563: the round, statement by statement *)
RECURSIVE school_pk_round(_, _, _, _, _, _, _, _, _, _)
school_pk_round(question, schools, subject_info, history, current_round, llm, outs, statements_per_round, i, acc) ==
    IF i >= statements_per_round THEN acc
    ELSE LET side == school_pk_speaker(i)
             g == _generate_school_statement(question, schools[side], subject_info, history,
                                             current_round, (i \div 2) + 1, llm,
                                             BackendAt(outs, i + 1))
         IN  IF g.raised
             THEN [raised |-> TRUE, statements |-> acc.statements,
                   events |-> acc.events \o g.events]
             ELSE school_pk_round(question, schools, subject_info, history, current_round,
                                  llm, outs, statements_per_round, i + 1,
                                  [raised |-> FALSE,
                                   statements |-> Append(acc.statements,
                                       [speaker |-> IF side = 1 THEN "school1" ELSE "school2",
                                        name |-> schools[side].name,
                                        icon |-> schools[side].icon,
                                        content |-> g.ret]),
                                   events |-> acc.events \o g.events])

FindSchool_lenient(schools, name) ==
    LET hits == {i \in 1..Len(schools) : schools[i].name = name}
    IN  IF schools = <<>> THEN Nothing
        ELSE IF hits = {} THEN <<schools[1]>>
        ELSE <<schools[CHOOSE i \in hits : \A j \in hits : i <= j]>>

(* next((s for s in schools if s['name'] == name), None) *)
FindSchool(schools, name) ==
    LET hits == {i \in 1..Len(schools) : schools[i].name = name}
    IN  IF hits = {} THEN Nothing ELSE <<schools[CHOOSE i \in hits : \A j \in hits : i <= j]>>

school_fun_fact_unnamed(school1_name, school2_name, subject_name) ==
    <<"fun_fact_school">> \o <<"enrich">> \o subject_name

(* school_pk, line 589 *)
school_fun_fact(school1_name, school2_name, subject_name) ==
    <<"fun_fact_school">> \o school1_name \o <<"and">> \o school2_name
        \o <<"enrich">> \o subject_name

(* school_pk: every response it can give to a request *)
school_pk_outcomes(req, lib, mode) ==
    LET question == Strip(req.question)
        subject_name == Strip(req.subject_name)
        school1_name == Strip(req.school1)
        school2_name == Strip(req.school2)
        current_round == Get(req.round, 1)
        max_statements == Get(req.max_statements, DefaultMaxStatements)
        found == get_subject_by_name(lib, subject_name)
    IN  IF question = <<>> \/ subject_name = <<>> \/ school1_name = <<>> \/ school2_name = <<>>
        THEN {Outcome(ErrorResponse("school_pk", 400, "fields_empty"), <<>>)}
        ELSE IF school1_name = school2_name
        THEN {Outcome(ErrorResponse("school_pk", 400, "same_school"), <<>>)}
        ELSE IF found = Nothing
        THEN {Outcome(ErrorResponse("school_pk", 404, "subject_not_found"), <<>>)}
        ELSE
          LET subject_info == found[1]
              school1 == FindSchool(subject_info.schools, school1_name)
              school2 == FindSchool(subject_info.schools, school2_name)
          IN  IF school1 = Nothing \/ school2 = Nothing
              THEN {Outcome(ErrorResponse("school_pk", 404, "school_not_found"), <<>>)}
              ELSE
                LET statements_per_round == max_statements
                    history == IF req.user_input # Nothing /\ req.user_input[1] # <<>>
                               THEN Append(req.history, UserStatement(req.user_input[1]))
                               ELSE req.history
                    current_llm == IF mode = "llm" THEN "client" ELSE None
                    has_more == current_round < max_rounds
                IN  {LET r == school_pk_round(question, <<school1[1], school2[1]>>,
                                              subject_info, history, current_round,
                                              current_llm, outs, statements_per_round, 0,
                                              [raised |-> FALSE, statements |-> <<>>,
                                               events |-> <<>>])
                     IN  IF r.raised
                         THEN Outcome(ErrorResponse("school_pk", 500, "exception"), r.events)
                         ELSE Outcome([route |-> "school_pk", status |-> 200,
                                       success |-> TRUE, question |-> question,
                                       subject_name |-> subject_name,
                                       statements |-> r.statements,
                                       round |-> current_round, has_more |-> has_more,
                                       school1 |-> [name |-> school1_name,
                                                    icon |-> school1[1].icon],
                                       school2 |-> [name |-> school2_name,
                                                    icon |-> school2[1].icon],
                                       demo_mode |-> (mode = "demo"),
                                       fun_fact |-> IF ~has_more
                                                    THEN <<school_fun_fact(school1_name,
                                                             school2_name, subject_name)>>
                                                    ELSE Nothing],
                                      r.events)
                     : outs \in [1..(IF mode = "llm" THEN statements_per_round ELSE 0)
                                    -> BackendOutcomes]}

-----------------------------------------------------------------------------
(* /api/pk *)

(* the names subject_pk can read: its locals up to line 715 and the module's globals *)
subject_pk_names ==
    {"data", "question", "subject1_name", "subject2_name", "current_round", "history",
     "subject1_info", "subject2_info", "current_llm", "agent1", "agent2", "statements",
     "app", "subject_library", "LLM_ONLY", "llm_client", "demo_mode", "llm_available",
     "user_mode", "SubjectLibrary", "SubjectAgent", "LLMClient", "traceback", "random",
     "os", "sys", "Flask", "CORS", "request", "jsonify", "render_template"}

(* _generate_fun_fact: random.choice of five remarks, each naming both topics *)
FunFactTemplates == 5

_generate_fun_fact(subject1, subject2, question) ==
    {<<"fun_fact", ToString(k)>> \o subject1 \o <<"and">> \o subject2 : k \in 1..FunFactTemplates}

(* subject_pk, lines 717-735: the round, statement by statement *)
RECURSIVE subject_pk_round(_, _, _, _, _, _, _, _)
subject_pk_round(question, agents, history, current_round, outs, statements_per_round, i, acc) ==
    IF i >= statements_per_round THEN acc
    ELSE LET side == IF i % 2 = 0 THEN 1 ELSE 2
             g == generate_pk_statement(agents[side], question, history, current_round,
                                        (i \div 2) + 1, BackendAt(outs, i + 1))
         IN  subject_pk_round(question, agents, history, current_round, outs,
                              statements_per_round, i + 1,
                              [statements |-> Append(acc.statements,
                                   [speaker |-> IF side = 1 THEN "subject1" ELSE "subject2",
                                    name |-> agents[side].name, icon |-> agents[side].icon,
                                    content |-> g.ret]),
                               events |-> acc.events \o g.events])

(* subject_pk: every response it can give to a request *)
subject_pk_outcomes(req, lib, mode) ==
    LET question == Strip(req.question)
        subject1_name == Strip(req.subject1)
        subject2_name == Strip(req.subject2)
        current_round == Get(req.round, 1)
        history == req.history
        found1 == get_subject_by_name(lib, subject1_name)
        found2 == get_subject_by_name(lib, subject2_name)
    IN  IF question = <<>> \/ subject1_name = <<>> \/ subject2_name = <<>>
        THEN {Outcome(ErrorResponse("subject_pk", 400, "fields_empty"), <<>>)}
        ELSE IF subject1_name = subject2_name
        THEN {Outcome(ErrorResponse("subject_pk", 400, "same_subject"), <<>>)}
        ELSE IF found1 = Nothing \/ found2 = Nothing
        THEN {Outcome(ErrorResponse("subject_pk", 404, "subject_not_found"), <<>>)}
        ELSE IF "max_statements" \notin subject_pk_names
        \* line 715: statements_per_round = max_statements raises NameError
        THEN {Outcome(ErrorResponse("subject_pk", 500, "exception"), <<>>)}
        ELSE
          LET current_llm == IF mode = "llm" THEN "client" ELSE None
              agent1 == SubjectAgent(found1[1], current_llm)
              agent2 == SubjectAgent(found2[1], current_llm)
              statements_per_round == Get(req.max_statements, DefaultMaxStatements)
              has_more == current_round < max_rounds
          IN  UNION {
                LET r == subject_pk_round(question, <<agent1, agent2>>, history,
                                          current_round, outs, statements_per_round, 0,
                                          [statements |-> <<>>, events |-> <<>>])
                IN  {Outcome([route |-> "subject_pk", status |-> 200, success |-> TRUE,
                              question |-> question, statements |-> r.statements,
                              round |-> current_round, has_more |-> has_more,
                              subject1 |-> [name |-> subject1_name,
                                           icon |-> found1[1].icon],
                              subject2 |-> [name |-> subject2_name,
                                           icon |-> found2[1].icon],
                              demo_mode |-> (mode = "demo"), fun_fact |-> fact],
                             r.events)
                     : fact \in IF ~has_more
                                THEN {<<f>> : f \in _generate_fun_fact(subject1_name,
                                                        subject2_name, question)}
                                ELSE {Nothing}}
                : outs \in [1..(IF mode = "llm" THEN statements_per_round ELSE 0)
                               -> BackendOutcomes]}

-----------------------------------------------------------------------------
(* /api/deep-chat and /api/deep-chat-init *)

(* the library in which the topic called name is the object value: what the      *)
(* library holds after a handler wrote to the dict get_subject_by_name handed it *)
StoreSubject(lib, name, value) ==
    LET Store(subjects) ==
            [i \in 1..Len(subjects) |->
                IF subjects[i].name = name THEN value ELSE subjects[i]]
    IN  [hot_subjects |-> Store(lib.hot_subjects),
         cold_subjects |-> Store(lib.cold_subjects),
         crossover_subjects |-> Store(lib.crossover_subjects)]

(* a persona override written into the library's own dict instead of a copy *)
deep_chat_library_aliased(req, lib) ==
    LET subject_name == Strip(req.subject_name)
        found == get_subject_by_name(lib, subject_name)
    IN  IF Strip(req.question) = <<>> \/ subject_name = <<>> \/ found = Nothing THEN lib
        ELSE IF req.representative # Nothing /\ req.representative[1] # <<>>
        THEN StoreSubject(lib, subject_name,
                 [found[1] EXCEPT
                     !.persona = Fmt("persona_in_the_voice_of", req.representative[1])])
        ELSE lib

(* deep_chat, lines 331-344: the library after the handler.  subject_info is the *)
(* library's own dict; the persona is written into subject_info_override, a      *)
(* deepcopy of it, so the library's dict keeps the value it had                  *)
deep_chat_library(req, lib) ==
    LET subject_name == Strip(req.subject_name)
        found == get_subject_by_name(lib, subject_name)
    IN  IF Strip(req.question) = <<>> \/ subject_name = <<>> \/ found = Nothing THEN lib
        ELSE LET subject_info == found[1]
                 subject_info_override ==
                     IF req.representative # Nothing /\ req.representative[1] # <<>>
                     THEN [subject_info EXCEPT
                              !.persona = Fmt("persona_in_the_voice_of",
                                              req.representative[1])]
                     ELSE subject_info
             IN  StoreSubject(lib, subject_name, subject_info)

(* deep_chat: every response it can give to a request *)
deep_chat_outcomes(req, lib, mode, llm_only, available) ==
    LET question == Strip(req.question)
        subject_name == Strip(req.subject_name)
        context == Get(req.context, <<>>)
        found == get_subject_by_name(lib, subject_name)
        subject_info == found[1]
    IN  IF question = <<>> \/ subject_name = <<>>
        THEN {Outcome(ErrorResponse("deep_chat", 400, "question_or_subject_empty"), <<>>)}
        ELSE IF found = Nothing
        THEN {Outcome(ErrorResponse("deep_chat", 404, "subject_not_found"), <<>>)}
        ELSE IF mode = "llm" /\ LLMClientRaises(available)
        THEN {Outcome(ErrorResponse("deep_chat", 500, "exception"), <<>>)}
        ELSE
          LET representative == req.representative
              subject_info_override ==
                  IF representative # Nothing /\ representative[1] # <<>>
                  THEN [subject_info EXCEPT
                           !.persona = Fmt("persona_in_the_voice_of", representative[1])]
                  ELSE subject_info
              current_llm == IF mode = "llm" THEN "client" ELSE None
              agent == SubjectAgent(subject_info_override, current_llm)
          IN  {LET a == deep_answer(agent, question, context, BackendAt(outs, 1))
                   s == generate_suggestions(a.agent, question, a.ret, BackendAt(outs, 2))
                   used_demo == s.agent.last_used_demo
                   llm_provider == IF current_llm # None THEN "provider" ELSE "demo"
               IN  IF llm_only /\ used_demo
                   THEN Outcome([route |-> "deep_chat", status |-> 503, success |-> FALSE,
                                 error |-> IF s.agent.last_error_message # Nothing
                                           THEN s.agent.last_error_message
                                           ELSE <<"llm_failed_demo_forbidden">>,
                                 llm_provider |-> llm_provider, used_demo |-> TRUE],
                                a.events \o s.events)
                   ELSE Outcome([route |-> "deep_chat", status |-> 200, success |-> TRUE,
                                 subject |-> subject_name, answer |-> a.ret,
                                 suggestions |-> s.ret, schools |-> subject_info.schools,
                                 demo_mode |-> (mode = "demo"),
                                 llm_provider |-> llm_provider, used_demo |-> used_demo],
                                a.events \o s.events)
               : outs \in [1..(IF mode = "llm" THEN 2 ELSE 0) -> BackendOutcomes]}

(* deep_chat_init: every response it can give to a request *)
deep_chat_init_outcomes(req, lib, mode) ==
    LET subject_name == Strip(req.subject_name)
        question == Strip(req.question)
        found == get_subject_by_name(lib, subject_name)
        subject_info == found[1]
    IN  IF subject_name = <<>>
        THEN {Outcome(ErrorResponse("deep_chat_init", 400, "subject_empty"), <<>>)}
        ELSE IF found = Nothing
        THEN {Outcome(ErrorResponse("deep_chat_init", 404, "subject_not_found"), <<>>)}
        ELSE
          LET current_llm == IF mode = "llm" THEN "client" ELSE None
              agent == SubjectAgent(subject_info, current_llm)
          IN  {LET s == generate_suggestions(agent, question, <<>>, BackendAt(outs, 1))
               IN  Outcome([route |-> "deep_chat_init", status |-> 200, success |-> TRUE,
                            subject |-> subject_name, suggestions |-> s.ret,
                            schools |-> subject_info.schools, demo_mode |-> (mode = "demo")],
                           s.events)
               : outs \in [1..(IF mode = "llm" THEN 1 ELSE 0) -> BackendOutcomes]}

(* app.py:17-42.  A process started with LLM_ONLY and no usable backend exits. *)
Init ==
    /\ LLM_ONLY \in BOOLEAN
    /\ llm_available \in BOOLEAN
    /\ user_mode = IF LLM_ONLY THEN "llm" ELSE "demo"
    /\ subject_library = LibraryConfig
    /\ phase = IF LLM_ONLY /\ ~llm_available THEN "exited" ELSE "idle"
    /\ request = NoRequest
    /\ response = NoResponse
    /\ trace = <<>>

(* a direct call of the ranker *)
RankerCalls ==
    [route : {"get_smart_subjects"}, question : {Q_empty, Q_plain, Q_econ},
     count : 0..MaxCount, diversity : Diversities]

(* a direct call of one operation of an agent; backend lists what the backend would *)
(* answer to a first and to a second call                                           *)
AgentOperations ==
    {"answer_one_sentence", "deep_answer", "generate_suggestions", "generate_viewpoint",
     "generate_arguments", "generate_pk_statement"}

(* a history of n statements, the two sides speaking in turn *)
History(n) ==
    [k \in 1..n |-> [speaker |-> IF k % 2 = 1 THEN "school1" ELSE "school2",
                     name |-> IF k % 2 = 1 THEN hangweizhuyi.name ELSE renzhixuepai.name,
                     icon |-> "icon", content |-> <<"said", ToString(k)>>]]

Histories == {History(0), History(1), History(MaxHistory)}

AgentCalls ==
    [route : {"agent"}, op : AgentOperations, who : {xinlixue, hangweijingjixue},
     llm_client : {"client", None}, backend : [1..2 -> BackendOutcomes],
     round_num : 1..max_rounds, turn : {1, PkTemplates + 1}, history : Histories]

user_text == <<"wo", "bu", "tong", "yi4">>

(* a direct call of LLMClient.generate_response, with what the provider answers *)
ProviderCalls ==
    {[route |-> "generate_response", provider_response |-> r]
       : r \in GeminiResponses \cup OpenAIResponses \cup HuiYuanResponses}

(* a direct call of a scripted statement lookup, for a topic or for a faction *)
ScriptedCalls ==
    [route : {"scripted"}, of : {"topic", "faction"}, who : {1, 2},
     round_num : (1 - RoundsBelowOne)..(max_rounds + 1), turn : 1..MaxTurn]

(* a direct call of _calculate_relevance for the topic at place who of the library, *)
(* with the value random.uniform draws in it                                       *)
RelevanceCalls ==
    [route : {"relevance"}, question : Questions \cup {Q_cross},
     who : 1..Len(AllSubjects(LibraryConfig)), jitter : JitterValues]

AskRequests ==
    [route : {"ask"}, question : {Q_empty, Q_blank, Q_econ},
     subject_count : {Nothing} \cup {<<n>> : n \in 1..MaxSubjectCount}]

SetModeRequests ==
    [route : {"set_mode"}, mode : {Nothing, <<"demo">>, <<"llm">>, <<"LLM">>, <<"auto">>}]

DeepChatRequests ==
    [route : {"deep_chat"}, question : {Q_blank, Q_econ},
     subject_name : {<<>>, xinlixue, weizhi},
     context : {Nothing, <<user_text>>}, representative : {Nothing, <<<<"si", "jin", "na">>>>}]

DeepChatInitRequests ==
    [route : {"deep_chat_init"}, question : {Q_empty, Q_econ},
     subject_name : {<<>>, xinlixue, weizhi}]

(* a faction debate request that passes validation *)
SchoolPkBase ==
    [route |-> "school_pk", question |-> Q_econ, subject_name |-> xinlixue,
     school1 |-> hangweizhuyi.name, school2 |-> renzhixuepai.name, round |-> Nothing,
     history |-> <<>>, max_statements |-> Nothing, user_input |-> Nothing]

SchoolPkRequests ==
    {[SchoolPkBase EXCEPT !.round = r, !.history = h, !.max_statements = <<m>>,
                         !.user_input = u]
       : r \in {Nothing} \cup {<<n>> : n \in (1 - RoundsBelowOne)..(max_rounds + 1)},
         h \in Histories, m \in 0..MaxStatements, u \in {Nothing, <<<<>>>>, <<user_text>>}}
    \cup {SchoolPkBase,
          [SchoolPkBase EXCEPT !.question = Q_blank],
          [SchoolPkBase EXCEPT !.subject_name = <<>>],
          [SchoolPkBase EXCEPT !.school1 = <<>>],
          [SchoolPkBase EXCEPT !.school2 = hangweizhuyi.name],
          [SchoolPkBase EXCEPT !.subject_name = weizhi],
          [SchoolPkBase EXCEPT !.subject_name = jingjixue],
          [SchoolPkBase EXCEPT !.school2 = weizhi]}

SubjectPkRequests ==
    [route : {"subject_pk"}, question : {Q_blank, Q_econ},
     subject1 : {<<>>, xinlixue, weizhi}, subject2 : {xinlixue, jingjixue},
     round : {Nothing, <<1>>, <<max_rounds>>}, history : {History(0), History(1)},
     max_statements : {Nothing, <<MaxStatements>>}, user_input : {Nothing, <<user_text>>}]

Requests ==
    RankerCalls \cup RelevanceCalls \cup AgentCalls \cup ScriptedCalls \cup ProviderCalls
        \cup AskRequests \cup SetModeRequests \cup DeepChatRequests
        \cup DeepChatInitRequests \cup SchoolPkRequests \cup SubjectPkRequests

Receive ==
    /\ phase = "idle"
    /\ \E r \in Requests : request' = r
    /\ phase' = "pending"
    /\ UNCHANGED <<LLM_ONLY, llm_available, user_mode, subject_library, response, trace>>

Deliver ==
    /\ phase = "responded"
    /\ phase' = "idle"
    /\ request' = NoRequest
    /\ response' = NoResponse
    /\ trace' = <<>>
    /\ UNCHANGED <<LLM_ONLY, llm_available, user_mode, subject_library>>

CallGetSmartSubjects ==
    /\ phase = "pending"
    /\ request.route = "get_smart_subjects"
    /\ \E run \in get_smart_subjects_runs(subject_library, request.question,
                                          request.count, request.diversity) :
          response' = [route |-> "get_smart_subjects",
                       ranking |-> Names(run.ranking),
                       result |-> Names(run.result)]
    /\ phase' = "responded"
    /\ UNCHANGED <<LLM_ONLY, llm_available, user_mode, subject_library, request, trace>>

(* one operation of a SubjectAgent, called as the handlers call it *)
AgentOperation(call, lib) ==
    LET self == SubjectAgent(get_subject_by_name(lib, call.who)[1], call.llm_client)
    IN  CASE call.op = "answer_one_sentence" ->
               answer_one_sentence(self, Q_econ, call.backend)
          [] call.op = "deep_answer" ->
               deep_answer(self, Q_econ, <<>>, call.backend)
          [] call.op = "generate_suggestions" ->
               generate_suggestions(self, Q_econ, <<>>, call.backend)
          [] call.op = "generate_viewpoint" ->
               generate_viewpoint(self, Q_econ, call.backend)
          [] call.op = "generate_arguments" ->
               generate_arguments(self, Q_econ, call.backend)
          [] call.op = "generate_pk_statement" ->
               generate_pk_statement(self, Q_econ, call.history, call.round_num, call.turn,
                                     call.backend)

CallAgentOperation ==
    /\ phase = "pending"
    /\ request.route = "agent"
    /\ LET r == AgentOperation(request, subject_library)
       IN  /\ response' = [route |-> "agent", op |-> request.op, raised |-> r.raised,
                           ret |-> r.ret, last_used_demo |-> r.agent.last_used_demo,
                           last_error_message |-> r.agent.last_error_message]
           /\ trace' = r.events
    /\ phase' = "responded"
    /\ UNCHANGED <<LLM_ONLY, llm_available, user_mode, subject_library, request>>

CallGenerateResponse ==
    /\ phase = "pending"
    /\ request.route = "generate_response"
    /\ LET r == generate_response(request.provider_response)
       IN  response' = [route |-> "generate_response", raised |-> r.raised, ret |-> r.ret,
                        sanitized |-> r.sanitized]
    /\ phase' = "responded"
    /\ UNCHANGED <<LLM_ONLY, llm_available, user_mode, subject_library, request, trace>>

(* the scripted statement of a topic (who-th of xinlixue, hangweijingjixue) or of a *)
(* faction (who-th of the factions of xinlixue)                                     *)
ScriptedStatement(call, lib) ==
    IF call.of = "topic"
    THEN LET name == <<xinlixue, hangweijingjixue>>[call.who]
             self == SubjectAgent(get_subject_by_name(lib, name)[1], None)
             raised == pk_template_at(call.turn, PkTemplates) = 0
         IN  [raised |-> raised,
              ret |-> IF raised THEN <<>>
                      ELSE _get_demo_pk_statement(self, Q_econ, call.round_num, call.turn)]
    ELSE _get_demo_school_statement(get_subject_by_name(lib, xinlixue)[1].schools[call.who],
                                    call.round_num, call.turn)

CallScriptedStatement ==
    /\ phase = "pending"
    /\ request.route = "scripted"
    /\ LET r == ScriptedStatement(request, subject_library)
       IN  response' = [route |-> "scripted", raised |-> r.raised, ret |-> r.ret]
    /\ phase' = "responded"
    /\ UNCHANGED <<LLM_ONLY, llm_available, user_mode, subject_library, request, trace>>

CallCalculateRelevance ==
    /\ phase = "pending"
    /\ request.route = "relevance"
    /\ response' = [route |-> "relevance",
                    score |-> _calculate_relevance(request.question,
                                  AllSubjects(subject_library)[request.who], request.jitter)]
    /\ phase' = "responded"
    /\ UNCHANGED <<LLM_ONLY, llm_available, user_mode, subject_library, request, trace>>

ask_question ==
    /\ phase = "pending"
    /\ request.route = "ask"
    /\ \E o \in ask_question_outcomes(request, subject_library, user_mode, LLM_ONLY,
                                      llm_available) :
          response' = o.response /\ trace' = o.trace
    /\ phase' = "responded"
    /\ UNCHANGED <<LLM_ONLY, llm_available, user_mode, subject_library, request>>

set_mode ==
    /\ phase = "pending"
    /\ request.route = "set_mode"
    /\ LET o == set_mode_outcome(request, user_mode, LLM_ONLY, llm_available)
       IN  response' = o.response /\ user_mode' = o.user_mode
    /\ phase' = "responded"
    /\ UNCHANGED <<LLM_ONLY, llm_available, subject_library, request, trace>>

deep_chat ==
    /\ phase = "pending"
    /\ request.route = "deep_chat"
    /\ \E o \in deep_chat_outcomes(request, subject_library, user_mode, LLM_ONLY,
                                    llm_available) :
          response' = o.response /\ trace' = o.trace
    /\ subject_library' = deep_chat_library(request, subject_library)
    /\ phase' = "responded"
    /\ UNCHANGED <<LLM_ONLY, llm_available, user_mode, request>>

deep_chat_init ==
    /\ phase = "pending"
    /\ request.route = "deep_chat_init"
    /\ \E o \in deep_chat_init_outcomes(request, subject_library, user_mode) :
          response' = o.response /\ trace' = o.trace
    /\ phase' = "responded"
    /\ UNCHANGED <<LLM_ONLY, llm_available, user_mode, subject_library, request>>

school_pk ==
    /\ phase = "pending"
    /\ request.route = "school_pk"
    /\ \E o \in school_pk_outcomes(request, subject_library, user_mode) :
          response' = o.response /\ trace' = o.trace
    /\ phase' = "responded"
    /\ UNCHANGED <<LLM_ONLY, llm_available, user_mode, subject_library, request>>

subject_pk ==
    /\ phase = "pending"
    /\ request.route = "subject_pk"
    /\ \E o \in subject_pk_outcomes(request, subject_library, user_mode) :
          response' = o.response /\ trace' = o.trace
    /\ phase' = "responded"
    /\ UNCHANGED <<LLM_ONLY, llm_available, user_mode, subject_library, request>>

Next ==
    \/ Receive
    \/ CallGetSmartSubjects
    \/ CallCalculateRelevance
    \/ CallAgentOperation
    \/ CallScriptedStatement
    \/ CallGenerateResponse
    \/ ask_question
    \/ set_mode
    \/ deep_chat
    \/ deep_chat_init
    \/ school_pk
    \/ subject_pk
    \/ Deliver

Spec == Init /\ [][Next]_vars

-----------------------------------------------------------------------------
(* Requests served by concurrent threads (app.run serves each request in a thread  *)
(* of its own).  One /api/ask request is followed read by read of the global       *)
(* user_mode (lines 95, 141, 165) while /api/set-mode requests are served by other *)
(* threads in between; set_mode writes the global once (line 279).                 *)

(* the event of ask_question reading the global user_mode *)
ReadUserMode(mode) ==
    [kind |-> "read_user_mode", op |-> "ask_question", who |-> <<>>, prompt |-> <<>>,
     args |-> <<>>, ok |-> (mode = "llm")]

ThreadsRequests == {r \in AskRequests : Strip(r.question) # <<>>}

(* lines 79-92: the request is read and its question is not empty *)
ask_begin ==
    /\ phase = "idle"
    /\ \E r \in ThreadsRequests : request' = r
    /\ phase' = "ask_95"
    /\ response' = NoResponse
    /\ trace' = <<>>
    /\ UNCHANGED <<LLM_ONLY, llm_available, user_mode, subject_library>>

(* lines 94-137: user_mode is read and the topics are chosen *)
ask_line_95 ==
    /\ phase = "ask_95"
    /\ \E sel \in ask_select_subjects(subject_library, Strip(request.question),
                                      Get(request.subject_count, DefaultSubjectCount),
                                      user_mode, LLM_ONLY, llm_available) :
          /\ trace' = <<ReadUserMode(user_mode)>> \o sel.events
          /\ response' = IF sel.failed THEN ErrorResponse("ask", 503, "llm_routing_failed")
                         ELSE [route |-> "ask_running", subjects |-> sel.subjects,
                               results |-> <<>>]
          /\ phase' = IF sel.failed THEN "responded" ELSE "ask_141"
    /\ UNCHANGED <<LLM_ONLY, llm_available, user_mode, subject_library, request>>

(* lines 139-159, one pass of the loop: user_mode is read, the agent is made with *)
(* or without a client, and it answers                                            *)
ask_line_141 ==
    /\ phase = "ask_141"
    /\ Len(response.results) < Len(response.subjects)
    /\ \E out \in AnswerOutcomes :
          LET subject_info == response.subjects[Len(response.results) + 1]
              current_llm == IF user_mode = "llm" THEN "client" ELSE None
              r == answer_one_sentence(SubjectAgent(subject_info, current_llm),
                                       Strip(request.question), <<out>>)
              raises == user_mode = "llm" /\ LLMClientRaises(llm_available)
              refused == LLM_ONLY /\ r.agent.last_used_demo
          IN  /\ trace' = IF raises THEN Append(trace, ReadUserMode(user_mode))
                          ELSE Append(trace, ReadUserMode(user_mode)) \o r.events
              /\ response' =
                    IF raises THEN ErrorResponse("ask", 500, "exception")
                    ELSE IF refused THEN ErrorResponse("ask", 503, "llm_answer_failed")
                    ELSE [response EXCEPT !.results =
                             Append(@, [name |-> subject_info.name, answer |-> r.ret,
                                        used_demo |-> r.agent.last_used_demo])]
              /\ phase' = IF raises \/ refused THEN "responded" ELSE "ask_141"
    /\ UNCHANGED <<LLM_ONLY, llm_available, user_mode, subject_library, request>>

(* lines 161-166: user_mode is read for demo_mode and the response is sent *)
ask_line_165 ==
    /\ phase = "ask_141"
    /\ Len(response.results) = Len(response.subjects)
    /\ response' = [route |-> "ask", status |-> 200, success |-> TRUE,
                    question |-> Strip(request.question), subjects |-> response.results,
                    demo_mode |-> (user_mode = "demo")]
    /\ trace' = Append(trace, ReadUserMode(user_mode))
    /\ phase' = "responded"
    /\ UNCHANGED <<LLM_ONLY, llm_available, user_mode, subject_library, request>>

(* a /api/set-mode request served by another thread while the ask is under way *)
set_mode_concurrent ==
    /\ phase \in {"ask_95", "ask_141"}
    /\ \E req \in SetModeRequests :
          user_mode' = set_mode_outcome(req, user_mode, LLM_ONLY, llm_available).user_mode
    /\ UNCHANGED <<LLM_ONLY, llm_available, subject_library, phase, request, response, trace>>

NextThreads ==
    \/ ask_begin
    \/ ask_line_95
    \/ ask_line_141
    \/ ask_line_165
    \/ set_mode_concurrent
    \/ Deliver

SpecThreads == Init /\ [][NextThreads]_vars

-----------------------------------------------------------------------------

(* The relevance ranker *)

RankerReturned == phase = "responded" /\ response.route = "get_smart_subjects"

TotalTopics == Len(AllSubjects(subject_library))

NoDuplicates(s) == \A i, j \in 1..Len(s) : i # j => s[i] # s[j]

Elements(s) == {s[i] : i \in 1..Len(s)}

(* C1: for every question, count >= 0 and diversity in [0,1], get_smart_subjects *)
(* returns exactly min(count, totalTopics) topics and none of them twice.        *)
C1_SelectsMinCountDistinct ==
    RankerReturned =>
        /\ Len(response.result) = Min(request.count, TotalTopics)
        /\ NoDuplicates(response.result)

(* a call that asked for more topics than there are and got each of them once *)
C1_Witness ==
    /\ RankerReturned
    /\ request.count > TotalTopics
    /\ request.diversity = 3
    /\ Len(response.result) = TotalTopics
    /\ Elements(response.result) = Elements(Names(AllSubjects(subject_library)))

(* C2: for count >= 1 the result holds the top max(1, floor(count*(1-diversity))) *)
(* topics of the ranking (as far as they exist), so the best topic is always in  *)
(* it, and at diversity 0 it is exactly the top count topics.                    *)
C2_TopOfRankingSelected ==
    (RankerReturned /\ request.count >= 1) =>
        LET high == Max(1, (request.count * (10 - request.diversity)) \div 10)
        IN  /\ \A i \in 1..Min(high, TotalTopics) :
                  response.ranking[i] \in Elements(response.result)
            /\ response.ranking[1] \in Elements(response.result)
            /\ request.diversity = 0 =>
                  Elements(response.result) =
                      {response.ranking[i] : i \in 1..Min(request.count, TotalTopics)}

(* diversity 1 and two topics asked: the best one, and the worst one drawn at random *)
C2_Witness ==
    /\ RankerReturned
    /\ request.count = 2
    /\ request.diversity = 10
    /\ Elements(response.result) = {response.ranking[1], response.ranking[4]}

-----------------------------------------------------------------------------
(* Debate rounds *)

Responded(route) == phase = "responded" /\ response.route = route

BackendCalls(events) == SelectSeq(events, LAMBDA e : e.kind = "backend_call")

ScriptedTexts(events) == SelectSeq(events, LAMBDA e : e.kind = "scripted")

FailedCalls(events) == SelectSeq(events, LAMBDA e : e.kind = "backend_call" /\ ~e.ok)

(* the first event of every statement's generation: the backend call where there is *)
(* a client, the scripted lookup where there is none                               *)
GenerationCalls == IF user_mode = "llm" THEN BackendCalls(trace) ELSE trace

(* the turn number a generation was called with *)
TurnOf(e) == IF e.kind = "backend_call" THEN e.prompt[1].turn ELSE e.args[2]

RoundOf(req) == Get(req.round, 1)

(* the faction debate request passes the checks of lines 493-522 *)
SchoolPkValid ==
    /\ Strip(request.question) # <<>>
    /\ Strip(request.subject_name) # <<>>
    /\ Strip(request.school1) # <<>>
    /\ Strip(request.school2) # <<>>
    /\ Strip(request.school1) # Strip(request.school2)
    /\ \E i \in 1..Len(AllSubjects(subject_library)) :
          LET s == AllSubjects(subject_library)[i]
          IN  /\ s.name = Strip(request.subject_name)
              /\ \E j \in 1..Len(s.schools) : s.schools[j].name = Strip(request.school1)
              /\ \E j \in 1..Len(s.schools) : s.schools[j].name = Strip(request.school2)

(* the topic debate request passes the checks of lines 686-706 *)
SubjectPkValid ==
    /\ Strip(request.question) # <<>>
    /\ Strip(request.subject1) # <<>>
    /\ Strip(request.subject2) # <<>>
    /\ Strip(request.subject1) # Strip(request.subject2)
    /\ InList(Strip(request.subject1), Names(AllSubjects(subject_library)))
    /\ InList(Strip(request.subject2), Names(AllSubjects(subject_library)))

StatementsPerRound == Get(request.max_statements, DefaultMaxStatements)

Alternates(statements, first, second) ==
    \A i \in 0..(Len(statements) - 1) :
        statements[i + 1].speaker = IF i % 2 = 0 THEN first ELSE second

C4_SubjectRoundSucceeds ==
    (Responded("subject_pk") /\ SubjectPkValid) =>
        /\ response.status = 200
        /\ response.success
        /\ Len(response.statements) = StatementsPerRound
        /\ Alternates(response.statements, "subject1", "subject2")

DebateSucceeded ==
    /\ Responded("school_pk") \/ Responded("subject_pk")
    /\ response.status = 200

(* the two names a debate response must find in its fun fact *)
ParticipantNames ==
    IF response.route = "school_pk"
    THEN <<response.school1.name, response.school2.name>>
    ELSE <<response.subject1.name, response.subject2.name>>

(* C5: in every successful debate round has_more equals (round < 3); a fun fact is  *)
(* present exactly when has_more is false, and it is then non-empty and holds the  *)
(* names of both participants.                                                      *)
C5_HasMoreAndFunFact ==
    DebateSucceeded =>
        /\ response.has_more = (RoundOf(request) < 3)
        /\ (response.fun_fact # Nothing) = ~response.has_more
        /\ response.fun_fact # Nothing =>
              /\ response.fun_fact[1] # <<>>
              /\ IsSubstr(ParticipantNames[1], response.fun_fact[1])
              /\ IsSubstr(ParticipantNames[2], response.fun_fact[1])

(* a third round that succeeded: no more rounds, and a fun fact naming both factions *)
C5_Witness ==
    /\ Responded("school_pk")
    /\ response.status = 200
    /\ request.round = <<3>>
    /\ ~response.has_more
    /\ response.fun_fact # Nothing
    /\ IsSubstr(hangweizhuyi.name, response.fun_fact[1])
    /\ IsSubstr(renzhixuepai.name, response.fun_fact[1])

(* C6: under LLM_ONLY a debate round in which a statement's backend call failed and *)
(* the scripted text was taken fails as a whole and returns no statements; a        *)
(* successful round holds no scripted statement.                                    *)
C6_StrictRoundAllOrNothing ==
    (LLM_ONLY /\ (Responded("school_pk") \/ Responded("subject_pk"))) =>
        /\ (Len(FailedCalls(trace)) > 0) => (response.status # 200 /\ ~response.success)
        /\ (response.status = 200) => (Len(ScriptedTexts(trace)) = 0)

-----------------------------------------------------------------------------
(* Strict mode outside the debates *)

(* C7: under LLM_ONLY an /api/ask request in which the backend call for a topic's *)
(* one-sentence answer failed is answered with 503, never with a success.         *)
C7_StrictAskFails ==
    (LLM_ONLY /\ Responded("ask")
        /\ \E i \in 1..Len(trace) :
              trace[i].kind = "backend_call" /\ trace[i].op = "answer_one_sentence"
                  /\ ~trace[i].ok) =>
        (response.status = 503 /\ ~response.success)

(* C8: under LLM_ONLY a deep-chat request whose deep answer came from the fallback *)
(* is answered with an error carrying the recorded failure, never with a success,  *)
(* whether the suggestions call that follows succeeds or fails.                    *)
C8_StrictDeepChatFails ==
    (LLM_ONLY /\ Responded("deep_chat")
        /\ \E i \in 1..Len(trace) :
              trace[i].kind = "scripted" /\ trace[i].op = "deep_answer") =>
        /\ response.status = 503
        /\ ~response.success
        /\ response.error = Failed.error

-----------------------------------------------------------------------------
(* The agent's operations *)

(* C9: every operation of the agent calls the backend at most once; when the call *)
(* fails it neither retries nor raises, and returns its scripted content, which   *)
(* is not empty.                                                                  *)
C9_OneCallThenFallback ==
    Responded("agent") =>
        /\ Len(BackendCalls(trace)) <= 1
        /\ ~response.raised
        /\ Len(FailedCalls(trace)) > 0 =>
              /\ Len(trace) = 2
              /\ trace[2].kind = "scripted"
              /\ trace[2].op = request.op
              /\ response.ret # <<>>
              /\ response.ret # Ok.text

(* a debate statement whose only backend call failed, although a second call would *)
(* have succeeded: the scripted statement came back                                *)
C9_Witness ==
    /\ Responded("agent")
    /\ request.op = "generate_pk_statement"
    /\ request.llm_client = "client"
    /\ ~request.backend[1].ok
    /\ request.backend[2].ok
    /\ Len(BackendCalls(trace)) = 1
    /\ response.ret # <<>>

-----------------------------------------------------------------------------
(* Validation *)

UnknownSubject(name) == ~InList(Strip(name), Names(AllSubjects(subject_library)))

(* the request has no question, names one side twice, or names a topic or faction *)
(* the library does not have                                                      *)
InvalidRequest ==
    \/ /\ request.route \in {"ask", "deep_chat", "school_pk", "subject_pk"}
       /\ Strip(request.question) = <<>>
    \/ /\ request.route = "deep_chat"
       /\ UnknownSubject(request.subject_name)
    \/ /\ request.route = "deep_chat_init"
       /\ UnknownSubject(request.subject_name)
    \/ /\ request.route = "school_pk"
       /\ ~SchoolPkValid
    \/ /\ request.route = "subject_pk"
       /\ ~SubjectPkValid

(* C10: a request without a question, a debate request naming one side twice, and a *)
(* request naming an unknown topic or faction are rejected with an error before any *)
(* generation: no backend call and no scripted text.                                *)
C10_RejectedBeforeGeneration ==
    (phase = "responded" /\ InvalidRequest) =>
        /\ response.status \in {400, 404}
        /\ ~response.success
        /\ trace = <<>>

(* with a client at hand, a faction debate naming one faction twice is refused and *)
(* nothing was generated                                                           *)
C10_Witness ==
    /\ Responded("school_pk")
    /\ user_mode = "llm"
    /\ Strip(request.school1) = Strip(request.school2)
    /\ Strip(request.school1) # <<>>
    /\ response.status = 400
    /\ trace = <<>>

-----------------------------------------------------------------------------
(* The mode *)

(* C11: when the process runs with LLM_ONLY, after any sequence of requests the    *)
(* mode is "llm" and LLM_ONLY is still true; every set-mode request asking for     *)
(* "demo" (named or by default) is answered with an error and the mode stays.      *)
C11_StrictModeStays ==
    /\ [](LLM_ONLY =>
            /\ user_mode = "llm"
            /\ (Responded("set_mode") /\ Lower(Get(request.mode, "demo")) = "demo") =>
                  (response.status = 400 /\ ~response.success))
    /\ [][LLM_ONLY => (LLM_ONLY' /\ user_mode' = "llm")]_vars

(* under LLM_ONLY a request for "demo" was refused and the mode is still "llm" *)
C11_Witness ==
    /\ LLM_ONLY
    /\ Responded("set_mode")
    /\ request.mode = <<"demo">>
    /\ response.status = 400
    /\ user_mode = "llm"

-----------------------------------------------------------------------------
(* The history window *)

DebateGenerations == {"generate_pk_statement", "_generate_school_statement"}

(* the history a debate generation of the request was called with *)
HistoryGiven ==
    IF request.route = "school_pk"
    THEN IF request.user_input # Nothing /\ request.user_input[1] # <<>>
         THEN Append(request.history, UserStatement(request.user_input[1]))
         ELSE request.history
    ELSE request.history

(* the history statements a prompt holds: its list of recent statements, or, where *)
(* the list is left out, the statement it quotes as the opponent's latest          *)
PromptHistory(prompt) ==
    IF prompt.history_text # <<>> THEN prompt.history_text ELSE prompt.opponent_latest

(* C12: in every debate statement generation, topic or faction, the history        *)
(* statements in the prompt are at most 6 and are the last min(6, len(history))    *)
(* statements of the history, in their order.                                      *)
C12_PromptHoldsLastSix ==
    (phase = "responded" /\ request.route \in {"agent", "school_pk", "subject_pk"}) =>
        \A i \in 1..Len(trace) :
            (trace[i].kind = "backend_call" /\ trace[i].op \in DebateGenerations) =>
                LET prompt == trace[i].prompt[1]
                    n == Min(6, Len(HistoryGiven))
                IN  /\ Len(PromptHistory(prompt)) <= 6
                    /\ PromptHistory(prompt) =
                           SubSeq(HistoryGiven, Len(HistoryGiven) - n + 1, Len(HistoryGiven))
                    /\ prompt.opponent_latest # <<>> =>
                           prompt.opponent_latest[1] = HistoryGiven[Len(HistoryGiven)]

(* a faction debate with a history longer than the window and a user's statement: *)
(* the prompt holds six statements, the user's last, and not the oldest ones       *)
C12_Witness ==
    /\ Responded("school_pk")
    /\ Len(request.history) = MaxHistory
    /\ request.user_input = <<user_text>>
    /\ Len(BackendCalls(trace)) > 0
    /\ Len(trace[1].prompt[1].history_text) = 6
    /\ trace[1].prompt[1].history_text[6].speaker = "user"
    /\ trace[1].prompt[1].history_text[1] = request.history[3]

-----------------------------------------------------------------------------
(* Scripted statements *)

(* the scripted text is one of the templates of a list *)
IsTemplate(text) ==
    /\ Len(text) >= 3
    /\ text[1] \in {"demo_pk_own", "demo_pk_round1", "demo_pk_round2", "demo_pk_round3",
                    "demo_school"}
    /\ text[2] = "template"
    /\ text[3] \in {ToString(k) : k \in 1..PkTemplates}

(* C13: for every identity, round >= 1 and turn >= 1, also turns beyond the number *)
(* of templates, the scripted statement lookup for topics and the one for factions *)
(* read a position inside the template list and return a template; neither raises. *)
C13_ScriptedLookupInBounds ==
    (Responded("scripted") /\ request.round_num >= 1 /\ request.turn >= 1) =>
        /\ ~response.raised
        /\ IsTemplate(response.ret)

(* a faction's sixth turn of round 2, far beyond its five templates: a template *)
C13_Witness ==
    /\ Responded("scripted")
    /\ request.of = "faction"
    /\ request.round_num = 2
    /\ request.turn = SchoolTemplates + 1
    /\ ~response.raised
    /\ IsTemplate(response.ret)

-----------------------------------------------------------------------------
(* The backend client *)

ClientReturned == Responded("generate_response") /\ ~response.raised

(* every sentence of the text is dropped by the meta patterns *)
AllSentencesMeta(txt) ==
    LET sentences == SplitSentences(txt, 1, <<>>, <<>>)
    IN  \A i \in 1..Len(sentences) :
            Strip(sentences[i]) = <<>> \/ MatchesMeta(Strip(sentences[i]))

(* C14: sanitization never turns a non-empty backend text into an empty result; *)
(* when every sentence of the text is dropped as meta-commentary, the text it   *)
(* was given comes back.                                                        *)
C14_SanitizeKeepsText ==
    (ClientReturned /\ response.sanitized[1] # <<>>) =>
        /\ response.ret # <<>>
        /\ AllSentencesMeta(response.sanitized[1]) => response.ret = response.sanitized[1]

(* two sentences, both meta-commentary: the whole text came back *)
C14_Witness ==
    /\ ClientReturned
    /\ response.sanitized = <<<<"hao_de", ".", " ", "xi_tong_ti_shi">>>>
    /\ response.ret = response.sanitized[1]

(* C15: for each of gemini, openai and huiyuan, generate_response returns a      *)
(* non-empty text or raises; an empty or whitespace-only provider response is    *)
(* never returned as an empty string.                                            *)
C15_EmptyResponseIsFailure ==
    Responded("generate_response") => (response.raised \/ response.ret # <<>>)

-----------------------------------------------------------------------------
(* /api/ask *)

AskSucceeded == Responded("ask") /\ response.status = 200

SubjectCountAsked == Get(request.subject_count, DefaultSubjectCount)

(* C16: a successful /api/ask response for a non-empty question and subject_count n *)
(* lists min(n, totalTopics) topics with pairwise distinct names, each with a      *)
(* non-empty answer, in demo mode and in llm mode, whatever names the backend's    *)
(* selection text holds.                                                           *)
C16_AskListsDistinctAnswered ==
    AskSucceeded =>
        /\ Len(response.subjects) = Min(SubjectCountAsked, TotalTopics)
        /\ NoDuplicates(Names(response.subjects))
        /\ \A i \in 1..Len(response.subjects) : response.subjects[i].answer # <<>>

(* ------------------------------------------------------------------------ *)
(* The relevance ranking                                                     *)
(* ------------------------------------------------------------------------ *)

(* the score of the topic named name without its jitter, in tenths *)
DeterministicScore(name) ==
    LET found == get_subject_by_name(subject_library, name)
    IN  _calculate_relevance(request.question, found[1], 0)

(* the place of a topic in the ranking *)
RankOf(name) == CHOOSE i \in 1..Len(response.ranking) : response.ranking[i] = name

(* topic a's score without jitter is more than 1.5 above topic b's *)
Dominates(a, b) == DeterministicScore(a) - DeterministicScore(b) > 15

(* C17: when the jitter-free score of topic A exceeds that of topic B by more   *)
(* than 1.5, A is ranked before B whatever the jitter; so at diversity 0 with   *)
(* count < totalTopics, B is never selected while A is left out.                *)
C17_GapBeatsJitter ==
    RankerReturned =>
        \A a, b \in Elements(response.ranking) :
            Dominates(a, b) =>
                /\ RankOf(a) < RankOf(b)
                /\ (request.diversity = 0 /\ request.count < TotalTopics) =>
                      ~(b \in Elements(response.result) /\ a \notin Elements(response.result))

(* the jitter put zhexue ahead of xinlixue, whose scores are equal without it, *)
(* and both stayed ahead of the topic they dominate, which was left out        *)
C17_Witness ==
    /\ RankerReturned
    /\ request.question = Q_econ
    /\ request.diversity = 0
    /\ request.count = 3
    /\ Dominates(xinlixue, hangweijingjixue)
    /\ response.ranking = <<jingjixue, zhexue, xinlixue, hangweijingjixue>>
    /\ Elements(response.result) = {jingjixue, zhexue, xinlixue}

(* ------------------------------------------------------------------------ *)
(* The relevance score of one topic                                          *)
(* ------------------------------------------------------------------------ *)

RelevanceReturned == phase = "responded" /\ response.route = "relevance"

(* the topic the call scored *)
ScoredSubject == AllSubjects(subject_library)[request.who]

(* the keywords of the scored topic, none when the table has no entry for it *)
KeywordSet ==
    IF ScoredSubject.name \in DOMAIN subject_keywords
    THEN Elements(subject_keywords[ScoredSubject.name]) ELSE {}

(* 2.0 per keyword of the set that occurs in the question, 5.0 for the name *)
KeywordAndNameScore ==
    20 * Cardinality({k \in KeywordSet : IsSubstr(k, request.question)})
        + (IF IsSubstr(ScoredSubject.name, request.question) THEN 50 ELSE 0)

(* some piece of two or more characters of the description's first 20 characters *)
(* occurs in the question                                                        *)
DescriptionTokenInQuestion ==
    LET d == Prefix(ScoredSubject.description, 20)
    IN  \E i, j \in 1..Len(d) : i < j /\ IsSubstr(SubSeq(d, i, j), request.question)

(* C18: the score holds a 1.0 contribution exactly when some token of more than *)
(* one character taken from the description occurs in the question; such a     *)
(* description and question exist, and then the 1.0 is added.                  *)
C18_DescriptionTermAdded ==
    RelevanceReturned =>
        response.score - request.jitter - KeywordAndNameScore
            = (IF DescriptionTokenInQuestion THEN 10 ELSE 0)

(* C19: the score without the jitter and the description term is 2.0 times the *)
(* number of the topic's keywords that occur in the question plus 5.0 if the   *)
(* topic's name occurs in it; a topic without an entry in the keyword table    *)
(* gets nothing for keywords, and an empty question scores the jitter alone.   *)
C19_KeywordAndNameScore ==
    RelevanceReturned =>
        LET part == response.score - request.jitter
                        - description_score(request.question, ScoredSubject.description)
        IN  /\ part = KeywordAndNameScore
            /\ ScoredSubject.name \notin DOMAIN subject_keywords =>
                  part = (IF IsSubstr(ScoredSubject.name, request.question) THEN 50 ELSE 0)
            /\ request.question = <<>> => response.score = request.jitter

(* jingjixue scored for a question that names it and holds two of its keywords *)
C19_Witness ==
    /\ RelevanceReturned
    /\ request.question = Q_econ
    /\ ScoredSubject.name = jingjixue
    /\ request.jitter = 15
    /\ response.score = 105

(* ------------------------------------------------------------------------ *)
(* The fallback marker                                                       *)
(* ------------------------------------------------------------------------ *)

AgentReturned == Responded("agent") /\ ~response.raised

(* the i-th answer of an /api/ask response is the scripted answer of its topic *)
AskAnswerIsFallback(i) ==
    LET found == get_subject_by_name(subject_library, response.subjects[i].name)
    IN  response.subjects[i].answer = _get_demo_answer(SubjectAgent(found[1], None),
                                                       response.question)

(* the answer of an /api/deep-chat response came from the scripted content *)
DeepAnswerIsFallback ==
    \E i \in 1..Len(trace) : trace[i].kind = "scripted" /\ trace[i].op = "deep_answer"

(* C20: after every operation of the agent, last_used_demo is true exactly when *)
(* the operation returned scripted content, and after a failed backend call     *)
(* last_error_message holds the failure's detail; so used_demo in the responses *)
(* of /api/ask and /api/deep-chat is true exactly when the answer is scripted.  *)
C20_FallbackMarkerTruthful ==
    /\ AgentReturned =>
          /\ response.last_used_demo <=> (ScriptedTexts(trace) # <<>>)
          /\ FailedCalls(trace) # <<>> => response.last_error_message = Failed.error
    /\ (Responded("ask") /\ response.success) =>
          \A i \in 1..Len(response.subjects) :
              response.subjects[i].used_demo <=> AskAnswerIsFallback(i)
    /\ (Responded("deep_chat") /\ response.success) =>
          (response.used_demo <=> DeepAnswerIsFallback)

-----------------------------------------------------------------------------
(* The history within a debate round *)

(* a debate round, of topics or of factions, that was answered with its statements *)
RoundAnswered ==
    /\ phase = "responded"
    /\ request.route \in {"school_pk", "subject_pk"}
    /\ response.success

(* C21: within one round every statement is appended to the history before the  *)
(* next one is generated: the generation of statement i+1 is called with a       *)
(* history whose last element is statement i, so its prompt holds that content.  *)
C21_HistoryGrowsInRound ==
    (RoundAnswered /\ user_mode = "llm") =>
        LET calls == BackendCalls(trace)
        IN  \A k \in 1..(Len(calls) - 1) :
                LET h == PromptHistory(calls[k + 1].prompt[1])
                IN  /\ h # <<>>
                    /\ h[Len(h)].content = response.statements[k].content

(* C22: every debate statement generation with a history that is not empty, one  *)
(* statement included, of topics and of factions alike, sends a prompt that      *)
(* holds the most recent statement apart as the opponent's latest point; with an *)
(* empty history the prompt holds no such point.                                 *)
C22_OpponentLatestHighlighted ==
    (phase = "responded" /\ request.route \in {"agent", "school_pk", "subject_pk"}) =>
        \A i \in 1..Len(trace) :
            (trace[i].kind = "backend_call" /\ trace[i].op \in DebateGenerations) =>
                trace[i].prompt[1].opponent_latest =
                    (IF HistoryGiven # <<>> THEN <<HistoryGiven[Len(HistoryGiven)]>>
                     ELSE <<>>)

-----------------------------------------------------------------------------
(* The user's statement in a debate round *)

(* the round request carries a statement written by the user *)
UserStatementGiven ==
    /\ request.route \in {"school_pk", "subject_pk"}
    /\ request.user_input # Nothing
    /\ request.user_input[1] # <<>>

(* C23: a user's statement carried by a debate round request, of topics or of    *)
(* factions, is appended to the end of the history with the speaker slot "user"  *)
(* before the first statement is generated, is in the 6-statement window of the  *)
(* round's generation calls, never appears among the returned statements and     *)
(* causes no generation or scripted lookup of its own.                           *)
C23_UserStatementInContext ==
    (phase = "responded" /\ UserStatementGiven
        /\ (IF request.route = "school_pk" THEN SchoolPkValid ELSE SubjectPkValid)) =>
        LET said == UserStatement(request.user_input[1])
            calls == BackendCalls(trace)
        IN  /\ (user_mode = "llm" /\ StatementsPerRound >= 1) =>
                  /\ calls # <<>>
                  /\ \A k \in 1..Len(calls) :
                        LET h == PromptHistory(calls[k].prompt[1])
                        IN  /\ h # <<>>
                            /\ h[Len(h)] = said
                            /\ h[Len(h)].speaker = "user"
            /\ \A i \in 1..Len(trace) : trace[i].who # said.name
            /\ response.success =>
                  /\ Len(response.statements) = StatementsPerRound
                  /\ \A i \in 1..Len(response.statements) :
                        /\ response.statements[i].speaker # "user"
                        /\ response.statements[i].content # said.content

(* the statement a direct scripted lookup returned is built from the template *)
(* at place position (from 0) of its list                                     *)
IsTemplateAt(text, position) == text[2] = "template" /\ text[3] = ToString(position + 1)

(* C24: scripted statements are reused in a cycle: for a list of L templates the *)
(* statement for (round, turn) is the template at position                       *)
(* ((round-1)*templatesPerRound + turn - 1) mod L, so an index k >= L gives the  *)
(* statement of index k mod L.                                                   *)
C24_ScriptedLookupWraps ==
    (Responded("scripted") /\ request.round_num >= 1) =>
        LET L == IF request.of = "topic" THEN PkTemplates ELSE SchoolTemplates
            k == (request.round_num - 1) * 5 + request.turn - 1
        IN  /\ ~response.raised
            /\ IsTemplateAt(response.ret, k % L)

-----------------------------------------------------------------------------
(* Sanitization of the backend's text *)

(* the sentences from place i on, each stripped, joined in their order *)
RECURSIVE JoinFrom(_, _)
JoinFrom(sentences, i) ==
    IF i > Len(sentences) THEN <<>>
    ELSE Strip(sentences[i]) \o JoinFrom(sentences, i + 1)

(* the text without its leading meta-commentary sentences: everything from the *)
(* first sentence that is not meta-commentary on                               *)
RECURSIVE WithoutLeadingMeta(_, _)
WithoutLeadingMeta(sentences, i) ==
    IF i > Len(sentences) THEN <<>>
    ELSE IF Strip(sentences[i]) = <<>> \/ MatchesMeta(Strip(sentences[i]))
    THEN WithoutLeadingMeta(sentences, i + 1)
    ELSE JoinFrom(sentences, i)

(* C25: sanitization removes leading meta-commentary sentences only: once the  *)
(* first sentence that is not meta-commentary is kept, every later sentence of *)
(* the text is kept too, in order, even one that matches a meta pattern.       *)
C25_OnlyLeadingMetaRemoved ==
    (ClientReturned /\ response.sanitized[1] # <<>>
        /\ ~AllSentencesMeta(response.sanitized[1])) =>
        response.ret =
            Strip(WithoutLeadingMeta(SplitSentences(response.sanitized[1], 1, <<>>, <<>>), 1))

-----------------------------------------------------------------------------
(* The topic library *)

(* C26: no handler and no ranker operation modifies the topic library: after any *)
(* sequence of requests, a deep chat with a persona override included, every     *)
(* topic's fields (persona too) and the order and membership of the hot, cold    *)
(* and crossover lists are as at startup.                                        *)
C26_LibraryReadOnly == subject_library = LibraryConfig

(* a deep chat in the voice of a representative was answered, and the topic's *)
(* persona in the library is the one it started with                          *)
C26_Witness ==
    /\ Responded("deep_chat")
    /\ response.success
    /\ request.representative # Nothing
    /\ request.representative[1] # <<>>
    /\ get_subject_by_name(subject_library, request.subject_name)[1].persona
           = get_subject_by_name(LibraryConfig, request.subject_name)[1].persona

-----------------------------------------------------------------------------
(* Concurrent requests *)

(* the reads of user_mode an /api/ask request made *)
UserModeReads == SelectSeq(trace, LAMBDA e : e.kind = "read_user_mode")

(* C27: concurrent requests share no mutable state that affects each other's   *)
(* results: an /api/ask request that interleaves with a concurrent set-mode    *)
(* request uses one mode throughout, so the mode that chose the selection      *)
(* path, the mode that decided for each topic whether its agent gets a client, *)
(* and the demo_mode of the response agree.                                    *)
C27_AskUsesOneMode ==
    (Responded("ask") /\ response.success /\ UserModeReads # <<>>) =>
        /\ \A i, j \in 1..Len(UserModeReads) : UserModeReads[i].ok = UserModeReads[j].ok
        /\ response.demo_mode = ~UserModeReads[1].ok

-----------------------------------------------------------------------------
(* The mode and the backend *)

(* the mode a set-mode request asks for, after lower() and the default *)
ModeAsked == Lower(Get(request.mode, "demo"))

(* C28: in every state reached from startup by set-mode requests the mode is   *)
(* 'llm' only if the backend was available at startup; a switch to 'llm' while *)
(* it is unavailable is rejected, and a process started in strict mode without *)
(* an available backend never serves a request.                                *)
C28_LlmModeNeedsBackend ==
    /\ phase # "exited" => (user_mode = "llm" => llm_available)
    /\ (Responded("set_mode") /\ ModeAsked = "llm" /\ ~llm_available) =>
          (response.status = 400 /\ ~response.success)
    /\ (LLM_ONLY /\ ~llm_available) =>
          (phase = "exited" /\ request = NoRequest /\ response = NoResponse)

(* a switch to 'llm' asked of a process without a backend: rejected, mode kept *)
C28_Witness ==
    /\ Responded("set_mode")
    /\ ModeAsked = "llm"
    /\ ~llm_available
    /\ response.status = 400
    /\ user_mode = "demo"

(* the set-mode request is one of those the handler rejects *)
SetModeRejected ==
    \/ ModeAsked \notin {"demo", "llm"}
    \/ LLM_ONLY /\ ModeAsked = "demo"
    \/ ModeAsked = "llm" /\ ~llm_available

(* C29: every rejected set-mode request (a mode other than 'demo' or 'llm',    *)
(* 'demo' under LLM_ONLY, 'llm' without a backend) leaves the mode as it was,  *)
(* every accepted one sets the mode to the one asked for, and a request        *)
(* without a mode is a request for 'demo'.                                     *)
C29_SetModeFrame ==
    [][(phase = "pending" /\ request.route = "set_mode" /\ phase' = "responded") =>
          /\ SetModeRejected =>
                (user_mode' = user_mode /\ response'.status = 400 /\ ~response'.success)
          /\ ~SetModeRejected =>
                (user_mode' = ModeAsked /\ response'.success /\ response'.mode = ModeAsked)
          /\ request.mode = Nothing =>
                IF LLM_ONLY THEN user_mode' = user_mode /\ ~response'.success
                ELSE user_mode' = "demo" /\ response'.success]_vars

(* a switch to 'llm' that was accepted: the process started in 'demo' *)
C29_Witness ==
    /\ Responded("set_mode")
    /\ ~LLM_ONLY
    /\ ModeAsked = "llm"
    /\ response.success
    /\ user_mode = "llm"

-----------------------------------------------------------------------------
(* Round numbers of a faction debate *)

(* C30: the round number of a faction debate is not validated, and no integer, *)
(* 0 and negative values included, causes a scripted lookup out of range: in   *)
(* demo mode or after a backend failure the round still returns                *)
(* statementsPerRound statements instead of an internal error.                 *)
C30_AnyRoundNumberServed ==
    (Responded("school_pk") /\ SchoolPkValid) =>
        /\ response.status = 200
        /\ response.success
        /\ Len(response.statements) = StatementsPerRound

====
